---- MODULE Spec2Model ----
(***************************************************************************)
(* Model of the matrix-recurrence encoders of bergman (Convnet / Bergman). *)
(*                                                                         *)
(* These parts of the program are modelled:                               *)
(*   - the masked-LM head's loss computation with its preheat counter      *)
(*     (ConvnetForMaskedLM.forward / BergmanForMaskedLM.forward), run      *)
(*     sequentially (Spec) and by two concurrent callers (SpecRace);       *)
(*   - the vector propagation scan (ConvnetMatrixLayer.calculate_vectors), *)
(*     one loop iteration per step (SpecScan);                             *)
(*   - the context views that ConvnetMatrixLayer.forward cuts out of the   *)
(*     scan histories (SpecLayer);                                         *)
(*   - the construction of a matrix layer, its matrix encoder with the     *)
(*     matrix normalizations, the feature vector and the head mixing       *)
(*     (SpecFeatures, SpecEncoding), and the block around it (SpecBlock);  *)
(*   - the return values of ConvnetEncoder.forward and ConvnetModel.forward *)
(*     (SpecModel) and their optional inputs (SpecOptionalInputs);         *)
(*   - the construction of the layer in both variants, ConvnetMatrixLayer  *)
(*     and BergmanMatrixLayer (SpecVariants);                              *)
(*   - the helper functions make_orthogonal (SpecOrtho), the auxiliary     *)
(*     matrix losses of the masked-LM head (SpecAuxLoss) and               *)
(*     create_position_ids_from_input_ids (SpecPositionIds).               *)
(* Numbers are fixed point with One standing for 1.0.  Where the two model *)
(* variants share the code line for line the Convnet file is the one       *)
(* referred to.                                                            *)
(***************************************************************************)
EXTENDS Integers, Sequences, FiniteSets, TLC

VARIABLES
    \* ---- masked-LM model (ConvnetForMaskedLM) ----
    config,           \* the configuration record the model was built from
    preheat_counter,  \* self.preheat_counter
    training,         \* nn.Module.training (train() / eval() mode)
    ncalls,           \* forward calls made so far
    nlabelled,        \* forward calls that computed a loss so far
    last,             \* what the last forward call returned or raised
    \* ---- concurrent callers of one masked-LM model ----
    pc,               \* per caller: position inside the forward call
    reg,              \* per caller: the counter value loaded by `-= 1`
    nsuppressed,      \* calls that reported masked_lm_loss = 0
    overlapped,       \* some call made the test while another was between test and store
    \* ---- calculate_vectors ----
    scan,             \* the arguments and locals of one calculate_vectors call
    scan2,            \* a second calculate_vectors call, compared with the first
    \* ---- ConvnetMatrixLayer.forward ----
    layer,            \* the inputs of one forward call of the layer and what it built
    \* ---- ConvnetEncoder.forward / ConvnetModel.forward ----
    encoder,          \* the flags of one forward call of the model and what it returned
    \* ---- helper functions ----
    pure              \* the arguments of one call of a helper function and what it returned

vars == <<config, preheat_counter, training, ncalls, nlabelled, last,
          pc, reg, nsuppressed, overlapped, scan, scan2, layer, encoder, pure>>

varsRace == <<pc, reg, nsuppressed, overlapped>>
varsVec == <<scan, scan2, layer, encoder, pure>>
varsLM == <<config, preheat_counter, training, ncalls, nlabelled, last>>

-----------------------------------------------------------------------------
(* Bounds of the model.                                                    *)

MaxPreheat == 3   \* largest configured matrix_norm_preheat_steps
MaxCalls == 5     \* forward calls per behaviour
MaxLen == 3       \* largest sequence length (context_sz)
One == 100        \* the fixed-point representation of 1.0

-----------------------------------------------------------------------------
(* Masked-LM loss computation.                                             *)

NormLossTypes == {"None", "MSE", "L1"}                   \* "L1" stands for any unsupported string
UnitaryLossTypes == {"None", "MSE", "CrossEntropy", "L1"}
LossWeights == {1, 2}
TaskLossValues == {5, 7}     \* values of CrossEntropyLoss(prediction_scores, labels)
AuxLossValues == {0, 3}      \* values of an auxiliary loss term
IdsForms == {"input_ids", "inputs_embeds", "both", "neither"}

Configs ==
    [matrix_norm_preheat_steps : 0..MaxPreheat,
     matrix_norm_loss_type : NormLossTypes,
     matrix_unitary_loss : UnitaryLossTypes,
     matrix_norm_loss_k : LossWeights,
     matrix_unitary_loss_k : LossWeights]

NoCall ==
    [status |-> "none", labels |-> FALSE, training |-> FALSE, has_loss |-> FALSE,
     loss |-> 0, masked_lm_loss |-> 0, matrix_norm_loss |-> 0,
     matrix_unitary_loss |-> 0, task_loss |-> 0, counter_before |-> 0]

\* `if self.preheat_counter > 0:`
PreheatActiveOffByOne(counter) == counter >= 0
PreheatActive(counter) == counter > 0

\* `self.preheat_counter -= 1`
PreheatDecrementTwice(counter) == counter - 2
PreheatDecrement(counter) == counter - 1

\* the counter after the preheat test of one call
PreheatNext(counter) ==
    IF PreheatActive(counter) THEN PreheatDecrement(counter) ELSE counter

\* `masked_lm_loss = 0` inside the preheat branch, else the computed loss
MaskedLmLoss(counter, computed) ==
    IF PreheatActive(counter) THEN 0 ELSE computed

\* matrix_norm_loss: 0.0 unless a loss type is configured
MatrixNormLoss(cfg, value) ==
    IF cfg.matrix_norm_loss_type = "None" THEN 0 ELSE value

\* matrix_unitary_loss: 0.0 unless a loss type is configured
MatrixUnitaryLoss(cfg, value) ==
    IF cfg.matrix_unitary_loss = "None" THEN 0 ELSE value

\* loss = masked_lm_loss + matrix_norm_loss * k + matrix_unitary_loss * k
TotalLoss(cfg, masked, norm, unitary) ==
    masked + norm * cfg.matrix_norm_loss_k + unitary * cfg.matrix_unitary_loss_k

\* ConvnetModel.forward rejects both or neither of input_ids / inputs_embeds
InputsRejected(ids) == ids \in {"both", "neither"}

\* `raise KeyError()` of the two auxiliary loss blocks
LossTypeRejectedNever(cfg) == FALSE
LossTypeRejected(cfg) ==
    \/ cfg.matrix_norm_loss_type \notin {"None", "MSE"}
    \/ cfg.matrix_unitary_loss \notin {"None", "MSE", "CrossEntropy"}

\* nn.Module.train() / nn.Module.eval()
SetTraining(mode) ==
    /\ training # mode
    /\ training' = mode
    /\ UNCHANGED <<config, preheat_counter, ncalls, nlabelled, last>>
    /\ UNCHANGED varsRace
    /\ UNCHANGED varsVec

\* ConvnetForMaskedLM.forward, one whole call
Forward(ids, labels, task, norm, unitary) ==
    /\ ncalls < MaxCalls
    /\ ncalls' = ncalls + 1
    /\ IF InputsRejected(ids)
       THEN /\ last' = [NoCall EXCEPT !.status = "ValueError", !.labels = labels,
                                      !.training = training,
                                      !.counter_before = preheat_counter]
            /\ UNCHANGED <<preheat_counter, nlabelled>>
       ELSE IF ~labels
       THEN /\ last' = [NoCall EXCEPT !.status = "ok", !.training = training,
                                      !.counter_before = preheat_counter]
            /\ UNCHANGED <<preheat_counter, nlabelled>>
       ELSE IF LossTypeRejected(config)
       THEN /\ last' = [NoCall EXCEPT !.status = "KeyError", !.labels = TRUE,
                                      !.training = training,
                                      !.counter_before = preheat_counter]
            /\ UNCHANGED <<preheat_counter, nlabelled>>
       ELSE LET masked == MaskedLmLoss(preheat_counter, task)
                nl == MatrixNormLoss(config, norm)
                ul == MatrixUnitaryLoss(config, unitary)
            IN /\ preheat_counter' = PreheatNext(preheat_counter)
               /\ nlabelled' = nlabelled + 1
               /\ last' = [status |-> "ok", labels |-> TRUE, training |-> training,
                           has_loss |-> TRUE,
                           loss |-> TotalLoss(config, masked, nl, ul),
                           masked_lm_loss |-> masked,
                           matrix_norm_loss |-> nl,
                           matrix_unitary_loss |-> ul,
                           task_loss |-> task,
                           counter_before |-> preheat_counter]
    /\ UNCHANGED <<config, training>>
    /\ UNCHANGED varsRace
    /\ UNCHANGED varsVec

-----------------------------------------------------------------------------
(* Two callers running forward with labels on one shared masked-LM model.   *)
(* The preheat branch is three separate accesses of self.preheat_counter:   *)
(* the read of the test, the read of `-= 1` and its write.                  *)

Callers == {1, 2}

\* a caller that has passed the test and not yet written the counter back
InWindow(t) == pc[t] \in {"load", "store"}

\* the call enters forward (labels given, inputs and loss types accepted)
RaceBegin(t) ==
    /\ pc[t] = "idle"
    /\ ncalls < MaxCalls
    /\ ncalls' = ncalls + 1
    /\ pc' = [pc EXCEPT ![t] = "test"]
    /\ UNCHANGED <<config, preheat_counter, training, nlabelled, last>>
    /\ UNCHANGED <<reg, nsuppressed, overlapped>>
    /\ UNCHANGED varsVec

\* `if self.preheat_counter > 0:`; a failed test reports the task loss
RaceTest(t) ==
    /\ pc[t] = "test"
    /\ pc' = [pc EXCEPT ![t] = IF PreheatActive(preheat_counter) THEN "load" ELSE "idle"]
    /\ overlapped' = (overlapped \/ \E u \in Callers \ {t} : InWindow(u))
    /\ UNCHANGED varsLM
    /\ UNCHANGED <<reg, nsuppressed>>
    /\ UNCHANGED varsVec

\* `self.preheat_counter -= 1`: the read
RaceLoad(t) ==
    /\ pc[t] = "load"
    /\ reg' = [reg EXCEPT ![t] = preheat_counter]
    /\ pc' = [pc EXCEPT ![t] = "store"]
    /\ UNCHANGED varsLM
    /\ UNCHANGED <<nsuppressed, overlapped>>
    /\ UNCHANGED varsVec

\* `self.preheat_counter -= 1`: the write, then `masked_lm_loss = 0`
RaceStore(t) ==
    /\ pc[t] = "store"
    /\ preheat_counter' = PreheatDecrement(reg[t])
    /\ nsuppressed' = nsuppressed + 1
    /\ pc' = [pc EXCEPT ![t] = "idle"]
    /\ UNCHANGED <<config, training, ncalls, nlabelled, last>>
    /\ UNCHANGED <<reg, overlapped>>
    /\ UNCHANGED varsVec

-----------------------------------------------------------------------------
(* Vector propagation: ConvnetMatrixLayer.calculate_vectors.               *)
(*                                                                         *)
(* One (batch, head) lane is modelled: torch.bmm multiplies lane by lane   *)
(* and attention_mask[..., i] broadcasts the batch row's mask entry over   *)
(* the lanes of that row, so the lanes do not interact.  Numbers are fixed *)
(* point with One standing for 1.0, in vectors and in matrices.            *)
(* Positions are numbered 1..T here (0..T-1 in the code).                  *)

Dim == 2               \* config.matrix_dim
VectorNormEps == 1     \* config.vector_norm_eps, the smallest positive number

Coords == 1..Dim

\* matrices the matrix encoder may hand over (m[i] of one lane)
Identity == [r \in Coords |-> [c \in Coords |-> IF r = c THEN One ELSE 0]]
Double == [r \in Coords |-> [c \in Coords |-> IF r = c THEN 2 * One ELSE 0]]
Swap == [r \in Coords |-> [c \in Coords |-> IF c = Dim + 1 - r THEN One ELSE 0]]
Shear == [r \in Coords |-> [c \in Coords |-> IF r = c \/ (r = 1 /\ c = Dim) THEN One ELSE 0]]
Project == [r \in Coords |-> [c \in Coords |-> IF r = 1 /\ c = 1 THEN One ELSE 0]]
Turn == [r \in Coords |-> [c \in Coords |->
            IF c = (r % Dim) + 1 THEN (IF r = 1 THEN -One ELSE One) ELSE 0]]

Matrices == {Double, Swap, Shear, Project, Turn}

InitTypes == {"one", "all", "zero"}      \* "zero" stands for any unrecognized init_type

RECURSIVE Dot(_, _, _)
Dot(a, b, k) == IF k = 0 THEN 0 ELSE a[k] * b[k] + Dot(a, b, k - 1)

\* division of the floating point numbers: symmetric in the sign
Quot(a, b) == IF a >= 0 THEN a \div b ELSE -((-a) \div b)

RECURSIVE SumAbs(_, _)
SumAbs(a, k) ==
    IF k = 0 THEN 0 ELSE (IF a[k] >= 0 THEN a[k] ELSE -a[k]) + SumAbs(a, k - 1)

\* the square root, rounded down
ISqrt(n) == CHOOSE r \in 0..n : r * r <= n /\ (r + 1) * (r + 1) > n

\* torch.norm(new_v, dim=-2, keepdim=True)
Norm(a) ==
    LET n == Dot(a, a, Dim)
        hi == SumAbs(a, Dim)
    IN CHOOSE r \in 0..hi : r * r <= n /\ (r + 1) * (r + 1) > n

\* a vector given by its components, as a tuple
Vector(f) == SubSeq(f, 1, Dim)

\* torch.bmm(m[i], v)
MatVec(M, a) == Vector([r \in Coords |-> Quot(Dot(M[r], a, Dim), One)])

\* new_v = new_v / (norm + self.vector_norm_eps)
Renormalize(a) ==
    LET n == Norm(a) IN Vector([k \in Coords |-> Quot(a[k] * One, n + VectorNormEps)])

\* the initial vector of init_type "one" and "all"
InitVectorUnscaled(init_type) ==
    IF init_type = "one"
    THEN Vector([k \in Coords |-> IF k = 1 THEN One ELSE 0])
    ELSE Vector([k \in Coords |-> One])
InitVector(init_type) ==
    IF init_type = "one"
    THEN Vector([k \in Coords |-> IF k = 1 THEN One ELSE 0])
    ELSE LET c == Quot(One * One, ISqrt(Dim * One * One)) IN Vector([k \in Coords |-> c])

\* v.type(torch.complex64): a complex number is the pair <<real, imaginary>>
ToComplex(a) == Vector([k \in Coords |-> <<a[k], 0>>])

\* the real and the imaginary part of a row of complex numbers times a vector
RECURSIVE ComplexDotRe(_, _, _)
ComplexDotRe(a, b, k) ==
    IF k = 0 THEN 0
    ELSE a[k][1] * b[k][1] - a[k][2] * b[k][2] + ComplexDotRe(a, b, k - 1)

RECURSIVE ComplexDotIm(_, _, _)
ComplexDotIm(a, b, k) ==
    IF k = 0 THEN 0
    ELSE a[k][1] * b[k][2] + a[k][2] * b[k][1] + ComplexDotIm(a, b, k - 1)

\* torch.bmm(m[i], v) of complex tensors
ComplexMatVec(M, a) ==
    Vector([r \in Coords |-> <<Quot(ComplexDotRe(M[r], a, Dim), One),
                               Quot(ComplexDotIm(M[r], a, Dim), One)>>])

\* the real and the imaginary parts of a complex vector
RealParts(a) == Vector([k \in Coords |-> a[k][1]])
ImagParts(a) == Vector([k \in Coords |-> a[k][2]])

\* torch.norm of a complex vector: a real number
ComplexNorm(a) ==
    LET n == Dot(RealParts(a), RealParts(a), Dim) + Dot(ImagParts(a), ImagParts(a), Dim)
        hi == SumAbs(RealParts(a), Dim) + SumAbs(ImagParts(a), Dim)
    IN CHOOSE r \in 0..hi : r * r <= n /\ (r + 1) * (r + 1) > n

\* new_v / (norm + self.vector_norm_eps) of a complex vector
ComplexRenormalize(a) ==
    LET n == ComplexNorm(a)
    IN Vector([k \in Coords |-> <<Quot(a[k][1] * One, n + VectorNormEps),
                                  Quot(a[k][2] * One, n + VectorNormEps)>>])

\* the blend of complex vectors with the real mask entry
ComplexBlend(new_v, v, mk) ==
    Vector([k \in Coords |-> <<new_v[k][1] * mk + v[k][1] * (1 - mk),
                               new_v[k][2] * mk + v[k][2] * (1 - mk)>>])

\* order = range(context_sz) if not reverse_direction else reversed(range(context_sz))
OrderIgnoringDirection(T, reverse_direction) == [j \in 1..T |-> j]
Order(T, reverse_direction) ==
    IF reverse_direction THEN [j \in 1..T |-> T + 1 - j] ELSE [j \in 1..T |-> j]

\* new_v = torch.bmm(m[i], v), re-normalized when norm_vectors is set
NewVector(s, i) ==
    IF s.complex_matrix
    THEN IF s.norm_vectors THEN ComplexRenormalize(ComplexMatVec(s.m[i], s.v))
         ELSE ComplexMatVec(s.m[i], s.v)
    ELSE IF s.norm_vectors THEN Renormalize(MatVec(s.m[i], s.v)) ELSE MatVec(s.m[i], s.v)

\* attention_mask[..., i]
MaskEntryOfStep(s, i) == s.mask[Len(s.history)]
MaskEntry(s, i) == s.mask[i]

\* new_v * attention_mask[..., i] + v * (1 - attention_mask[..., i])
BlendIgnoringMask(new_v, v, mk) == new_v
Blend(new_v, v, mk) == Vector([k \in Coords |-> new_v[k] * mk + v[k] * (1 - mk)])

\* what one loop iteration appends to history
HistoryEntry(s, i) ==
    IF ~s.has_mask THEN NewVector(s, i)
    ELSE IF s.complex_matrix THEN ComplexBlend(NewVector(s, i), s.v, MaskEntry(s, i))
    ELSE Blend(NewVector(s, i), s.v, MaskEntry(s, i))

\* `if accumulate: v = history[-1]`
NextStateNeverAccumulate(s, entry) == s.v
NextState(s, entry) == IF s.accumulate THEN entry ELSE s.v

\* the arguments of a call: T matrices, a 0/1 mask over the T positions or None
ScanArgs(MS, n) ==
    UNION {[m : [1..T -> MS],
            has_mask : BOOLEAN,
            mask : [1..T -> {0, 1}],
            accumulate : BOOLEAN,
            init_type : InitTypes,
            reverse_direction : BOOLEAN,
            norm_vectors : BOOLEAN,
            complex_matrix : {FALSE}] : T \in 0..n}

\* a call that has not started; without a mask the mask argument is not read
ScanCalled(a) ==
    [m |-> a.m, has_mask |-> a.has_mask, mask |-> a.mask,
     accumulate |-> a.accumulate, init_type |-> a.init_type,
     reverse_direction |-> a.reverse_direction, norm_vectors |-> a.norm_vectors,
     complex_matrix |-> a.complex_matrix,
     pc |-> "call", v |-> <<>>, history |-> <<>>, order |-> <<>>, seen |-> <<>>]

NoScan ==
    [m |-> <<>>, has_mask |-> FALSE, mask |-> <<>>, accumulate |-> FALSE,
     init_type |-> "one", reverse_direction |-> FALSE, norm_vectors |-> FALSE,
     complex_matrix |-> FALSE,
     pc |-> "none", v |-> <<>>, history |-> <<>>, order |-> <<>>, seen |-> <<>>]

\* the prologue: the initial vector (or KeyError), history = [v], the order
ScanEnter(s) ==
    IF s.init_type \notin {"one", "all"}
    THEN [s EXCEPT !.pc = "KeyError"]
    ELSE LET v0 == IF s.complex_matrix THEN ToComplex(InitVector(s.init_type))
                   ELSE InitVector(s.init_type)
             order == Order(Len(s.m), s.reverse_direction)
         IN [s EXCEPT !.v = v0, !.history = <<v0>>, !.order = order,
                      !.pc = IF order = <<>> THEN "done" ELSE "loop"]

\* one iteration of `for i in order`; seen records (i, v) as the iteration found them
ScanIter(s) ==
    LET i == Head(s.order)
        entry == HistoryEntry(s, i)
    IN [s EXCEPT !.history = Append(s.history, entry),
                 !.v = NextState(s, entry),
                 !.order = Tail(s.order),
                 !.seen = Append(s.seen, [i |-> i, v |-> s.v]),
                 !.pc = IF Tail(s.order) = <<>> THEN "done" ELSE "loop"]

\* one step of a call
ScanAdvance(s) ==
    IF s.pc = "call" THEN ScanEnter(s) ELSE IF s.pc = "loop" THEN ScanIter(s) ELSE s

\* the whole call, run to its return
RECURSIVE ScanRun(_)
ScanRun(s) == IF s.pc \in {"call", "loop"} THEN ScanRun(ScanAdvance(s)) ELSE s

\* calculate_vectors(...): the returned history
CalculateVectors(a) == ScanRun(ScanCalled(a)).history

ScanStep ==
    /\ scan.pc \in {"call", "loop"}
    /\ scan' = ScanAdvance(scan)
    /\ UNCHANGED <<scan2, layer, encoder, pure>>
    /\ UNCHANGED varsLM
    /\ UNCHANGED varsRace

\* two independent calls, each taking its next step
PairStep ==
    /\ scan.pc \in {"call", "loop"} \/ scan2.pc \in {"call", "loop"}
    /\ scan' = ScanAdvance(scan)
    /\ scan2' = ScanAdvance(scan2)
    /\ UNCHANGED <<layer, encoder, pure>>
    /\ UNCHANGED varsLM
    /\ UNCHANGED varsRace

\* list(reversed(...))
Reverse(q) == SubSeq([j \in 1..Len(q) |-> q[Len(q) + 1 - j]], 1, Len(q))

\* v_lr[:-1]
AllButLast(q) == SubSeq(q, 1, Len(q) - 1)

\* the views ConvnetMatrixLayer.forward cuts out of a history, by position
ViewLrNotShifted(history) == AllButLast(history)
ViewLr(history) == Tail(history)
ViewLrExcl(history) == AllButLast(history)
ViewGlobal(history) ==
    SubSeq([j \in 1..(Len(history) - 1) |-> history[Len(history)]], 1, Len(history) - 1)
ViewRlNotReversed(history) == Tail(history)
ViewRl(history) == Reverse(Tail(history))
ViewRlExclNotReversed(history) == AllButLast(history)
ViewRlExcl(history) == Reverse(AllButLast(history))

-----------------------------------------------------------------------------
(* Context views: ConvnetMatrixLayer.forward, from the normalized matrices *)
(* to the concatenated feature vector x (one lane, by position).           *)

UseForContextChoices ==
    {<<"lr">>, <<"global">>, <<"lr_excl">>, <<"rl">>, <<"rl_excl">>,
     <<"local">>, <<"local_l">>, <<"local_r">>,
     <<"lr", "rl">>, <<"global", "lr_excl">>, <<"local_l", "local_r">>, <<"rl_excl", "local">>}

ViewNames == {"global", "lr", "lr_excl", "rl", "rl_excl", "local", "local_l", "local_r"}

\* v_local[2:] + [v_local[0]]
ViewLocalLWrapping(history) == SubSeq(history, 3, Len(history)) \o <<history[2]>>
ViewLocalL(history) == SubSeq(history, 3, Len(history)) \o <<history[1]>>

\* v_local[:-1]
ViewLocalRNotShifted(history) == Tail(history)
ViewLocalR(history) == AllButLast(history)

\* v_local[1:]
ViewLocal(history) == Tail(history)

\* the three calculate_vectors calls of forward
LrArgs(l) ==
    [m |-> l.m_norm_lr, has_mask |-> l.has_mask, mask |-> l.mask, accumulate |-> TRUE,
     init_type |-> l.vector_init_direction, reverse_direction |-> FALSE,
     norm_vectors |-> l.norm_vectors, complex_matrix |-> l.complex_matrix]

RlArgs(l) ==
    [m |-> l.m_norm_rl, has_mask |-> l.has_mask, mask |-> l.mask, accumulate |-> TRUE,
     init_type |-> l.vector_init_direction, reverse_direction |-> TRUE,
     norm_vectors |-> l.norm_vectors, complex_matrix |-> l.complex_matrix]

LocalArgs(l) ==
    [m |-> l.m_norm_lr, has_mask |-> l.has_mask, mask |-> l.mask, accumulate |-> FALSE,
     init_type |-> l.vector_init_direction, reverse_direction |-> FALSE,
     norm_vectors |-> l.norm_vectors, complex_matrix |-> l.complex_matrix]

\* the names of a use_for_context list
Used(l) == {l.use_for_context[j] : j \in DOMAIN l.use_for_context}

\* the `if {...} & set(self.use_for_context)` tests
WantsLr(l) == Used(l) \cap {"global", "lr", "lr_excl"} # {}
WantsRl(l) == Used(l) \cap {"rl", "rl_excl"} # {}
WantsLocal(l) == Used(l) \cap {"local", "local_l", "local_r"} # {}

\* available_vectors after the three blocks: the names it holds
Available(l) ==
    (IF WantsLr(l) THEN {"global", "lr", "lr_excl"} ELSE {})
    \cup (IF WantsRl(l) THEN {"rl", "rl_excl"} ELSE {})
    \cup (IF WantsLocal(l) THEN {"local", "local_l", "local_r"} ELSE {})

\* available_vectors[name], by position
ViewOf(l, name) ==
    CASE name = "global" -> ViewGlobal(CalculateVectors(LrArgs(l)))
      [] name = "lr" -> ViewLr(CalculateVectors(LrArgs(l)))
      [] name = "lr_excl" -> ViewLrExcl(CalculateVectors(LrArgs(l)))
      [] name = "rl" -> ViewRl(CalculateVectors(RlArgs(l)))
      [] name = "rl_excl" -> ViewRlExcl(CalculateVectors(RlArgs(l)))
      [] name = "local" -> ViewLocal(CalculateVectors(LocalArgs(l)))
      [] name = "local_l" -> ViewLocalL(CalculateVectors(LocalArgs(l)))
      [] name = "local_r" -> ViewLocalR(CalculateVectors(LocalArgs(l)))

\* available_vectors["local"] = (v_local,): a tuple, which torch.concatenate rejects
IsTensor(name) == name # "local"

\* torch.concatenate(context, axis=-1) at position i
RECURSIVE ConcatAt(_, _, _, _)
ConcatAt(l, views, j, i) ==
    IF j > Len(l.use_for_context) THEN <<>>
    ELSE views[l.use_for_context[j]][i] \o ConcatAt(l, views, j + 1, i)

\* config.networks_for_heads; "other" stands for any unrecognized value
NetworksForHeads == {"None", "separate", "separate_sum", "common", "other"}

\* torch.view_as_complex(torch.stack([m, m_j], dim=-1)), one matrix
ViewAsComplex(M, MJ) ==
    SubSeq([r \in Coords |-> SubSeq([c \in Coords |-> <<M[r][c], MJ[r][c]>>], 1, Dim)], 1, Dim)

\* x.abs() of one complex number, rounded down
ComplexAbs(z) ==
    LET n == z[1] * z[1] + z[2] * z[2]
        hi == (IF z[1] >= 0 THEN z[1] ELSE -z[1]) + (IF z[2] >= 0 THEN z[2] ELSE -z[2])
    IN CHOOSE r \in 0..hi : r * r <= n /\ (r + 1) * (r + 1) > n

\* torch.view_as_real(x).view(..., width * 2): real and imaginary part of each
\* component, one after the other
ViewAsRealKeepingWidth(q) == SubSeq([k \in 1..Len(q) |-> q[k][1]], 1, Len(q))
ViewAsReal(q) ==
    SubSeq([k \in 1..(2 * Len(q)) |-> q[(k + 1) \div 2][2 - (k % 2)]], 1, 2 * Len(q))

\* config.matrix_norm_alg: None, the axes -1 and -2, the two axes [-2, -1],
\* "det", "ortho"; "other" stands for any unrecognized value and "axes3" for
\* a list of three axes
MatrixNormAlgs == {"None", "axis-1", "axis-2", "axes", "det", "ortho", "other", "axes3"}

\* the configuration of a layer and the inputs of one forward call: fc is what
\* fc_to_mat returns at each position, fc_j what fc_to_mat_j returns
LayerInputs(MS, n) ==
    UNION {[fc : [1..T -> MS],
            fc_j : {[p \in 1..T |-> Identity]},
            rl_lr_matrix_different : BOOLEAN,
            has_mask : BOOLEAN,
            mask : [1..T -> {0, 1}],
            use_for_context : UseForContextChoices,
            vector_init_direction : InitTypes,
            norm_vectors : BOOLEAN,
            complex_matrix : {FALSE},
            complex_matrix_abs : {FALSE},
            networks_for_heads : {"None"},
            num_matrix_heads : {2},
            hidden_size : {4},
            matrix_norm_alg : {"None"},
            matrix_encoder_version : {1},
            output_matrices : {FALSE},
            is_decoder : {FALSE}] : T \in 1..n}

\* a configuration and the inputs of the call to come, nothing constructed yet;
\* the second matrix encoder is a network of its own: its fc_to_mat output is
\* taken to be that of the first in reversed order
LayerGiven(a) ==
    [fc |-> a.fc, fc_j |-> a.fc_j,
     fc_rl |-> IF a.rl_lr_matrix_different THEN Reverse(a.fc) ELSE <<>>,
     rl_lr_matrix_different |-> a.rl_lr_matrix_different,
     has_mask |-> a.has_mask, mask |-> a.mask,
     use_for_context |-> a.use_for_context,
     vector_init_direction |-> a.vector_init_direction,
     norm_vectors |-> a.norm_vectors,
     complex_matrix |-> a.complex_matrix,
     complex_matrix_abs |-> a.complex_matrix_abs,
     networks_for_heads |-> a.networks_for_heads,
     num_matrix_heads |-> a.num_matrix_heads,
     hidden_size |-> a.hidden_size,
     matrix_norm_alg |-> a.matrix_norm_alg,
     matrix_encoder_version |-> a.matrix_encoder_version,
     output_matrices |-> a.output_matrices,
     is_decoder |-> a.is_decoder,
     variant |-> "convnet",
     in_features |-> 0, out_features |-> 0, constructed |-> FALSE,
     status |-> "config", m |-> <<>>, m_norm_lr |-> <<>>, m_norm_rl |-> <<>>,
     available |-> {}, views |-> [name \in {} |-> <<>>], x |-> <<>>, width |-> 0,
     outputs |-> <<>>, matrices |-> <<>>, block_width |-> 0]

NoLayer ==
    [fc |-> <<>>, fc_j |-> <<>>, fc_rl |-> <<>>, rl_lr_matrix_different |-> FALSE,
     has_mask |-> FALSE, mask |-> <<>>, use_for_context |-> <<>>,
     vector_init_direction |-> "one", norm_vectors |-> FALSE,
     complex_matrix |-> FALSE, complex_matrix_abs |-> FALSE,
     networks_for_heads |-> "None", num_matrix_heads |-> 1, hidden_size |-> 1,
     matrix_norm_alg |-> "None", matrix_encoder_version |-> 1,
     output_matrices |-> FALSE, is_decoder |-> FALSE,
     variant |-> "convnet",
     in_features |-> 0, out_features |-> 0, constructed |-> FALSE,
     status |-> "none", m |-> <<>>, m_norm_lr |-> <<>>, m_norm_rl |-> <<>>,
     available |-> {}, views |-> [name \in {} |-> <<>>], x |-> <<>>, width |-> 0,
     outputs |-> <<>>, matrices |-> <<>>, block_width |-> 0]

\* complex_sz_multiplyer
ComplexSzMultiplyer(l) == IF l.complex_matrix /\ ~l.complex_matrix_abs THEN 2 ELSE 1

\* in_features of the Linear layers of v_to_hidden (0 when there is none)
InFeatures(l) ==
    CASE l.networks_for_heads \in {"separate", "separate_sum"} ->
            Dim * Len(l.use_for_context) * ComplexSzMultiplyer(l)
      [] l.networks_for_heads = "common" ->
            Dim * Len(l.use_for_context) * l.num_matrix_heads * ComplexSzMultiplyer(l)
      [] OTHER -> 0

\* out_features of the Linear layers of v_to_hidden (0 when there is none);
\* head_vector_sz = int(hidden_size / num_matrix_heads)
OutFeatures(l) ==
    CASE l.networks_for_heads = "separate" -> l.hidden_size \div l.num_matrix_heads
      [] l.networks_for_heads \in {"separate_sum", "common"} -> l.hidden_size
      [] OTHER -> 0

\* the hidden_size check of __init__
HiddenSizeRejected(l) ==
    l.networks_for_heads = "None" /\ l.hidden_size % l.num_matrix_heads # 0

\* ConvnetMatrixLayer.__init__
LayerConstructWithoutPolicyCheck(l) ==
    IF HiddenSizeRejected(l) THEN [l EXCEPT !.status = "ValueError"]
    ELSE [l EXCEPT !.status = "call", !.constructed = TRUE,
                   !.in_features = InFeatures(l), !.out_features = OutFeatures(l)]
LayerConstruct(l) ==
    IF HiddenSizeRejected(l) THEN [l EXCEPT !.status = "ValueError"]
    ELSE IF l.networks_for_heads \notin {"None", "separate", "separate_sum", "common"}
    THEN [l EXCEPT !.status = "KeyError"]
    ELSE [l EXCEPT !.status = "call", !.constructed = TRUE,
                   !.in_features = InFeatures(l), !.out_features = OutFeatures(l)]

\* in_features and out_features of the Linear layers of v_to_hidden in
\* BergmanMatrixLayer.__init__ (0 when there is none)
BergmanInFeatures(l) ==
    CASE l.networks_for_heads = "separate" -> Dim * Len(l.use_for_context)
      [] l.networks_for_heads = "common" ->
            Dim * Len(l.use_for_context) * l.num_matrix_heads
      [] OTHER -> 0

BergmanOutFeatures(l) ==
    CASE l.networks_for_heads = "separate" -> l.hidden_size \div l.num_matrix_heads
      [] l.networks_for_heads = "common" -> l.hidden_size
      [] OTHER -> 0

\* BergmanMatrixLayer.__init__
BergmanLayerConstruct(l) ==
    IF l.hidden_size % l.num_matrix_heads # 0
    THEN [l EXCEPT !.status = "ValueError", !.variant = "bergman"]
    ELSE IF l.networks_for_heads \notin {"None", "separate", "common"}
    THEN [l EXCEPT !.status = "KeyError", !.variant = "bergman"]
    ELSE [l EXCEPT !.status = "call", !.constructed = TRUE, !.variant = "bergman",
                   !.in_features = BergmanInFeatures(l),
                   !.out_features = BergmanOutFeatures(l)]

\* a constructed layer about to run forward
LayerCalled(a) == LayerConstruct(LayerGiven(a))

MatrixNormEps == 1     \* config.matrix_norm_eps, the smallest positive number

\* math.sqrt(self.matrix_dim)
SqrtDim == ISqrt(Dim * One * One)

Column(M, c) == Vector([r \in Coords |-> M[r][c]])

\* a matrix given by its entries, as a tuple of rows
Matrix(f) == SubSeq([r \in Coords |-> SubSeq(f[r], 1, Dim)], 1, Dim)

\* m / (torch.norm(m, dim=-1, keepdim=True) + eps): every row by its norm
NormalizeRows(M) ==
    Matrix([r \in Coords |-> [c \in Coords |->
        Quot(M[r][c] * One, Norm(M[r]) + MatrixNormEps)]])

\* m / (torch.norm(m, dim=-2, keepdim=True) + eps): every column by its norm
NormalizeColumns(M) ==
    Matrix([r \in Coords |-> [c \in Coords |->
        Quot(M[r][c] * One, Norm(Column(M, c)) + MatrixNormEps)]])

\* the Frobenius norm of a matrix
RECURSIVE SumSquares(_, _)
SumSquares(M, r) == IF r = 0 THEN 0 ELSE Dot(M[r], M[r], Dim) + SumSquares(M, r - 1)

RECURSIVE SumAbsRows(_, _)
SumAbsRows(M, r) == IF r = 0 THEN 0 ELSE SumAbs(M[r], Dim) + SumAbsRows(M, r - 1)

Frobenius(M) ==
    LET n == SumSquares(M, Dim)
    IN CHOOSE r \in 0..SumAbsRows(M, Dim) : r * r <= n /\ (r + 1) * (r + 1) > n

\* m / (torch.norm(m, dim=[-2, -1], keepdim=True) + eps) * math.sqrt(matrix_dim)
NormalizeFrobenius(M) ==
    Matrix([r \in Coords |-> [c \in Coords |->
        Quot(Quot(M[r][c] * One, Frobenius(M) + MatrixNormEps) * SqrtDim, One)]])

\* m.det() of a 2 x 2 matrix
Det(M) == Quot(M[1][1] * M[2][2] - M[1][2] * M[2][1], One)

\* m / (d.abs() ** (1 / matrix_dim) + eps), the root being the square root
NormalizeDet(M) ==
    LET d == IF Det(M) >= 0 THEN Det(M) ELSE -Det(M)
        root == ISqrt(d * One)
    IN Matrix([r \in Coords |-> [c \in Coords |->
           Quot(M[r][c] * One, root + MatrixNormEps)]])

\* make_orthogonal of a 2 x 2 matrix of full rank: the factor Q of the QR
\* decomposition whose R has a positive diagonal, column by column
MakeOrthogonal(M) ==
    LET a1 == Column(M, 1)
        a2 == Column(M, 2)
        q1 == Vector([k \in Coords |-> Quot(a1[k] * One, Norm(a1))])
        r12 == Quot(Dot(q1, a2, Dim), One)
        u2 == Vector([k \in Coords |-> a2[k] - Quot(q1[k] * r12, One)])
        q2 == Vector([k \in Coords |-> Quot(u2[k] * One, Norm(u2))])
    IN Matrix([r \in Coords |-> [c \in Coords |-> IF c = 1 THEN q1[r] ELSE q2[r]]])

\* the determinant without rounding: 0 exactly when the R factor of the QR
\* decomposition has a zero on its diagonal
ExactDet(M) == M[1][1] * M[2][2] - M[1][2] * M[2][1]

IsZero(a) == \A k \in Coords : a[k] = 0

\* the unit vector at a right angle to q
Perp(q) == <<-q[2], q[1]>>

\* a matrix given by its two columns
FromColumns(c1, c2) ==
    Matrix([r \in Coords |-> [c \in Coords |-> IF c = 1 THEN c1[r] ELSE c2[r]]])

\* make_orthogonal of any 2 x 2 matrix: what it can return, q with the set nan
\* of its columns that are NaN (their entries are written 0).  Where the
\* diagonal entry d of R is 0, sign(d) = 0 clears the column of q and d / d.abs()
\* is 0 / 0, so the column is NaN.  A zero column makes d exactly 0 (the
\* reflection of a zero column is the identity); for two parallel columns d is 0
\* or a rounding residue of either sign, and the column is NaN or a unit vector
\* at a right angle to the first.
MakeOrthogonalOutcomes(M) ==
    LET a1 == Column(M, 1)
        a2 == Column(M, 2)
        q1 == Vector([k \in Coords |-> Quot(a1[k] * One, Norm(a1))])
        none == <<0, 0>>
    IN IF ExactDet(M) # 0 THEN {[q |-> MakeOrthogonal(M), nan |-> {}]}
       ELSE IF IsZero(a1)
       THEN IF a2[2] = 0 THEN {[q |-> FromColumns(none, none), nan |-> {1, 2}]}
            ELSE {[q |-> FromColumns(none, <<0, IF a2[2] > 0 THEN One ELSE -One>>),
                   nan |-> {1}]}
       ELSE IF IsZero(a2) THEN {[q |-> FromColumns(q1, none), nan |-> {2}]}
       ELSE {[q |-> FromColumns(q1, none), nan |-> {2}],
             [q |-> FromColumns(q1, Perp(q1)), nan |-> {}],
             [q |-> FromColumns(q1, Vector([k \in Coords |-> -Perp(q1)[k]])), nan |-> {}]}

\* the matrix_norm_alg branches of ConvnetMatrixEncoder.forward, one matrix
NormalizeMatrix(alg, M) ==
    CASE alg = "None" -> M
      [] alg = "axis-1" -> NormalizeRows(M)
      [] alg = "axis-2" -> NormalizeColumns(M)
      [] alg = "axes" -> NormalizeFrobenius(M)
      [] alg = "det" -> NormalizeDet(M)
      [] alg = "ortho" -> MakeOrthogonal(M)

\* what the matrix_norm_alg branches raise, "ok" when they raise nothing;
\* version 2 of the encoder asserts that matrix_norm_alg is None
NormAlgStatusOfVersion1(version, alg) ==
    IF alg \in {"None", "axis-1", "axis-2", "axes", "det", "ortho"} THEN "ok"
    ELSE IF alg = "axes3" THEN "AssertionError"
    ELSE "KeyError"
NormAlgStatus(version, alg) ==
    IF version = 2 THEN (IF alg = "None" THEN "ok" ELSE "AssertionError")
    ELSE IF alg \in {"None", "axis-1", "axis-2", "axes", "det", "ortho"} THEN "ok"
    ELSE IF alg = "axes3" THEN "AssertionError"
    ELSE "KeyError"

\* a matrix encoder's forward on the fc_to_mat outputs of the positions:
\* the pair (m_norm, m), or what it raises
MatrixEncoder(l, fc) ==
    LET m == IF l.complex_matrix
             THEN SubSeq([p \in DOMAIN fc |-> ViewAsComplex(fc[p], l.fc_j[p])], 1, Len(fc))
             ELSE fc
        status == NormAlgStatus(l.matrix_encoder_version, l.matrix_norm_alg)
    IN [status |-> status,
        m |-> m,
        m_norm |-> IF status = "ok"
                   THEN SubSeq([p \in DOMAIN m |-> NormalizeMatrix(l.matrix_norm_alg, m[p])],
                               1, Len(m))
                   ELSE <<>>]

\* x after `if self.complex_matrix:`, one position of one lane
RealFeatures(l, q) ==
    IF ~l.complex_matrix THEN q
    ELSE IF l.complex_matrix_abs
    THEN SubSeq([k \in 1..Len(q) |-> ComplexAbs(q[k])], 1, Len(q))
    ELSE ViewAsReal(q)

\* what a Linear layer of in_features columns does with an input of the given
\* width: its out_features, or -1 for the shape mismatch it raises
Linear(in_features, out_features, width) ==
    IF width = in_features THEN out_features ELSE -1

\* the width of x after the head-mixing branch, from the width of one head's
\* feature vector
MixedWidth(l, w) ==
    CASE l.networks_for_heads = "separate" ->
            IF Linear(l.in_features, l.out_features, w) = -1 THEN -1
            ELSE l.num_matrix_heads * l.out_features
      [] l.networks_for_heads = "separate_sum" -> Linear(l.in_features, l.out_features, w)
      [] l.networks_for_heads = "common" ->
            Linear(l.in_features, l.out_features, l.num_matrix_heads * w)
      [] OTHER -> l.num_matrix_heads * w

\* a value computed once and handed on: Rest applied to v
Then(v, Rest(_)) == CHOOSE out \in {Rest(x) : x \in {v}} : TRUE

\* m_norm_lr, m_norm_rl and m as forward has them before the scans
WithMatrices(l) ==
    Then(MatrixEncoder(l, l.fc), LAMBDA lr :
    Then(MatrixEncoder(l, l.fc_rl), LAMBDA rl :
       IF lr.status # "ok" THEN [l EXCEPT !.status = lr.status]
       ELSE IF l.rl_lr_matrix_different
       THEN [l EXCEPT !.m_norm_lr = lr.m_norm, !.m_norm_rl = rl.m_norm,
                      !.m = lr.m \o rl.m]
       ELSE [l EXCEPT !.m_norm_lr = lr.m_norm, !.m_norm_rl = lr.m_norm, !.m = lr.m]))

\* the views, the feature vector x of one lane before the head-mixing branch,
\* and the width of x after it
WithFeatures(l) ==
    IF Available(l) # {} /\ l.vector_init_direction \notin {"one", "all"}
    THEN [l EXCEPT !.status = "KeyError"]
    ELSE Then([name \in Available(l) |-> ViewOf(l, name)] @@ <<>>, LAMBDA views :
         IF ~(Used(l) \subseteq Available(l))
         THEN [l EXCEPT !.status = "KeyError", !.available = Available(l), !.views = views]
         ELSE IF \E name \in Used(l) : ~IsTensor(name)
         THEN [l EXCEPT !.status = "TypeError", !.available = Available(l), !.views = views]
         ELSE Then([i \in 1..Len(l.m_norm_lr) |->
                       RealFeatures(l, ConcatAt(l, views, 1, i))] @@ <<>>, LAMBDA x :
              LET width == MixedWidth(l, Len(x[1]))
              IN [l EXCEPT !.status = IF width = -1 THEN "RuntimeError" ELSE "ok",
                           !.available = Available(l), !.views = views,
                           !.x = x, !.width = width]))

\* the matrices of the outputs tuple
ReturnedMatricesNormalized(l) == l.m_norm_lr
ReturnedMatrices(l) == l.m

\* the tuple forward returns: x, then m when output_matrices is set (matrices
\* is that item), then v_global for a decoder (a name that is bound by the
\* 'lr' block only)
WithOutputs(l) ==
    IF l.is_decoder /\ ~WantsLr(l) THEN [l EXCEPT !.status = "UnboundLocalError"]
    ELSE [l EXCEPT !.outputs = <<"x">> \o (IF l.output_matrices THEN <<"m">> ELSE <<>>)
                                    \o (IF l.is_decoder THEN <<"v_global">> ELSE <<>>),
                   !.matrices = IF l.output_matrices THEN ReturnedMatrices(l) ELSE <<>>]

\* ConvnetMatrixLayer.forward
LayerRun(l) ==
    Then(WithMatrices(l), LAMBDA encoded :
    IF encoded.status # "call" THEN encoded
    ELSE Then(WithFeatures(encoded), LAMBDA assembled :
         IF assembled.status # "ok" THEN assembled ELSE WithOutputs(assembled)))

\* ConvnetMatrixBlock.forward: the matrix layer, then ConvnetMatrixOutput, whose
\* dense layer is Linear(hidden_size, hidden_size); block_width is the width of
\* the block's hidden states
BlockRun(l) ==
    Then(LayerRun(l), LAMBDA mm :
    IF mm.status # "ok" THEN mm
    ELSE LET width == Linear(l.hidden_size, l.hidden_size, mm.width)
         IN IF width = -1 THEN [mm EXCEPT !.status = "RuntimeError"]
            ELSE [mm EXCEPT !.block_width = width])

LayerInit ==
    /\ layer.status = "config"
    /\ layer' = LayerConstruct(layer)
    /\ UNCHANGED <<scan, scan2, encoder, pure>>
    /\ UNCHANGED varsLM
    /\ UNCHANGED varsRace

\* the same configuration handed to the Bergman variant of the layer
BergmanLayerInit ==
    /\ layer.status = "config"
    /\ layer' = BergmanLayerConstruct(layer)
    /\ UNCHANGED <<scan, scan2, encoder, pure>>
    /\ UNCHANGED varsLM
    /\ UNCHANGED varsRace

LayerForward ==
    /\ layer.status = "call"
    /\ layer' = LayerRun(layer)
    /\ UNCHANGED <<scan, scan2, encoder, pure>>
    /\ UNCHANGED varsLM
    /\ UNCHANGED varsRace

BlockForward ==
    /\ layer.status = "call"
    /\ layer' = BlockRun(layer)
    /\ UNCHANGED <<scan, scan2, encoder, pure>>
    /\ UNCHANGED varsLM
    /\ UNCHANGED varsRace

-----------------------------------------------------------------------------
(* ConvnetModel.forward: the encoder's loop over the layers and the two    *)
(* forms of the return value.  A tensor is known by what it is, the layer  *)
(* that produced it and its shape; every layer runs the forward call held  *)
(* in the variable layer.  Gradient checkpointing and the input            *)
(* convolution are off, as they are by default.                            *)

MaxLayers == 2

Tensor(tag, i, shape) == [tag |-> tag, layer |-> i, shape |-> shape]

\* an item of a returned tuple or a field of a returned object: None, one
\* tensor, or a tuple of tensors
NoneItem == [kind |-> "None", tensors |-> <<>>]
TensorItem(t) == [kind |-> "tensor", tensors |-> <<t>>]
TupleItem(ts) == [kind |-> "tuple", tensors |-> ts]

EncoderCalls ==
    [num_hidden_layers : 1..MaxLayers,
     batch_sz : {1, 2},
     output_hidden_states : BOOLEAN,
     return_dict : BOOLEAN,
     use_cache : BOOLEAN,
     encoder_hidden_states : {FALSE},
     encoder_attention_mask : {FALSE},
     head_mask : {FALSE},
     past_vectors : {FALSE}]

\* calls that supply the optional inputs of ConvnetModel.forward: TRUE stands
\* for a tensor, FALSE for None
OptionalInputCalls ==
    [num_hidden_layers : 1..MaxLayers,
     batch_sz : {1},
     output_hidden_states : {FALSE},
     return_dict : {TRUE},
     use_cache : BOOLEAN,
     encoder_hidden_states : BOOLEAN,
     encoder_attention_mask : BOOLEAN,
     head_mask : BOOLEAN,
     past_vectors : BOOLEAN]

EncoderCalled(c) ==
    [num_hidden_layers |-> c.num_hidden_layers, batch_sz |-> c.batch_sz,
     output_hidden_states |-> c.output_hidden_states,
     return_dict |-> c.return_dict, use_cache |-> c.use_cache,
     encoder_hidden_states |-> c.encoder_hidden_states,
     encoder_attention_mask |-> c.encoder_attention_mask,
     head_mask |-> c.head_mask, past_vectors |-> c.past_vectors,
     status |-> "call", all_hidden_states |-> NoneItem, all_matrices |-> NoneItem,
     returned |-> <<>>, model_returned |-> <<>>]

NoEncoder ==
    [num_hidden_layers |-> 1, batch_sz |-> 1, output_hidden_states |-> FALSE,
     return_dict |-> FALSE, use_cache |-> FALSE,
     encoder_hidden_states |-> FALSE, encoder_attention_mask |-> FALSE,
     head_mask |-> FALSE, past_vectors |-> FALSE,
     status |-> "none", all_hidden_states |-> NoneItem, all_matrices |-> NoneItem,
     returned |-> <<>>, model_returned |-> <<>>]

\* hidden states: the embedding output (layer 0) or a layer's output
HiddenStates(e, l, i) ==
    Tensor("hidden_states", i, <<e.batch_sz, Len(l.fc), l.hidden_size>>)

\* layer_outputs[1] of layer i when output_matrices is set: the layer's m
LayerMatrix(e, run, i) ==
    Tensor("matrices", i, <<Len(run.matrices), e.batch_sz, run.num_matrix_heads, Dim, Dim>>)

\* the pooler's output
Pooled(e, l) == Tensor("pooler_output", e.num_hidden_layers, <<e.batch_sz, l.hidden_size>>)

\* mask_matrix: the attention mask of batch_sz * T entries viewed as
\* [context_sz, batch_size, 1, 1, 1], the two sizes read from m
MaskMatrixStatus(m, T, batch_sz) ==
    IF m.shape[1] * m.shape[2] = T * batch_sz THEN "ok" ELSE "RuntimeError"

\* the items of a list that are not None, in order
RECURSIVE NotNone(_)
NotNone(items) ==
    IF items = <<>> THEN <<>>
    ELSE IF Head(items).kind = "None" THEN NotNone(Tail(items))
    ELSE <<Head(items)>> \o NotNone(Tail(items))

\* all_hidden_states and all_matrices after the loop over the layers
AllHiddenStates(e, l) ==
    IF e.output_hidden_states
    THEN TupleItem([i \in 1..(e.num_hidden_layers + 1) |-> HiddenStates(e, l, i - 1)])
    ELSE NoneItem

AllMatrices(e, run) ==
    IF run.output_matrices
    THEN TupleItem([i \in 1..e.num_hidden_layers |-> LayerMatrix(e, run, i)])
    ELSE NoneItem

\* the tuple-style and the object-style return of ConvnetEncoder.forward
EncoderTuple(e, l, run) ==
    NotNone(<<TensorItem(HiddenStates(e, l, e.num_hidden_layers)), AllMatrices(e, run)>>)

EncoderObject(e, l, run) ==
    [last_hidden_state |-> TensorItem(HiddenStates(e, l, e.num_hidden_layers)),
     hidden_states |-> AllHiddenStates(e, l),
     matrices |-> AllMatrices(e, run)]

\* the tuple-style and the object-style return of ConvnetModel.forward
ModelTuple(e, l, run) ==
    <<TensorItem(HiddenStates(e, l, e.num_hidden_layers)), TensorItem(Pooled(e, l))>>
    \o Tail(EncoderTuple(e, l, run))

ModelObject(e, l, run) ==
    [last_hidden_state |-> TensorItem(HiddenStates(e, l, e.num_hidden_layers)),
     hidden_states |-> EncoderObject(e, l, run).hidden_states,
     pooler_output |-> TensorItem(Pooled(e, l)),
     matrices |-> EncoderObject(e, l, run).matrices]

\* use_cache as the encoder receives it
UseCache(e, l) == l.is_decoder /\ e.use_cache

\* encoder_extended_attention_mask, what ConvnetModel.forward hands to the
\* encoder as encoder_attention_mask: a tensor when the model is a decoder and
\* encoder_hidden_states is given, None otherwise
EncoderExtendedAttentionMask(e, l) == l.is_decoder /\ e.encoder_hidden_states

\* the assertions on the optional inputs at the head of ConvnetLayer.forward
\* and of ConvnetMatrixLayer.forward, in the order they are made
OptionalInputsStatus(e, l) ==
    IF e.encoder_hidden_states THEN "AssertionError"
    ELSE IF EncoderExtendedAttentionMask(e, l) THEN "AssertionError"
    ELSE IF e.head_mask THEN "AssertionError"
    ELSE IF e.past_vectors THEN "AssertionError"
    ELSE "ok"

\* ConvnetModel.forward from the call of the encoder on: the first layer that
\* raises ends the call, `raise NotImplemented()` is a TypeError
EncoderRun(e, l) ==
    IF OptionalInputsStatus(e, l) # "ok"
    THEN [e EXCEPT !.status = OptionalInputsStatus(e, l)]
    ELSE
    Then(BlockRun(l), LAMBDA run :
    IF run.status # "ok" THEN [e EXCEPT !.status = run.status]
    ELSE IF UseCache(e, l) THEN [e EXCEPT !.status = "TypeError"]
    ELSE [e EXCEPT !.status = "ok",
                   !.all_hidden_states = AllHiddenStates(e, l),
                   !.all_matrices = AllMatrices(e, run),
                   !.returned = IF e.return_dict THEN EncoderObject(e, l, run)
                                ELSE EncoderTuple(e, l, run),
                   !.model_returned = IF e.return_dict THEN ModelObject(e, l, run)
                                      ELSE ModelTuple(e, l, run)])

ModelForward ==
    /\ layer.status = "call"
    /\ encoder.status = "call"
    /\ encoder' = EncoderRun(encoder, layer)
    /\ layer' = IF OptionalInputsStatus(encoder, layer) # "ok"
                THEN [layer EXCEPT !.status = OptionalInputsStatus(encoder, layer)]
                ELSE BlockRun(layer)
    /\ UNCHANGED <<scan, scan2, pure>>
    /\ UNCHANGED varsLM
    /\ UNCHANGED varsRace

-----------------------------------------------------------------------------
(* Calls of helper functions, one call per behaviour.                      *)

\* q = make_orthogonal(z)
MakeOrthogonalCall ==
    /\ pure.fn = "make_orthogonal"
    /\ pure.status = "call"
    /\ \E out \in MakeOrthogonalOutcomes(pure.z) :
          pure' = [pure EXCEPT !.status = "done", !.q = out.q, !.nan = out.nan]
    /\ UNCHANGED <<scan, scan2, layer, encoder>>
    /\ UNCHANGED varsLM
    /\ UNCHANGED varsRace

\* the sum of the first n entries of a sequence of numbers
RECURSIVE SumOf(_, _)
SumOf(f, n) == IF n = 0 THEN 0 ELSE f[n] + SumOf(f, n - 1)

\* mask_matrix for one lane: m * mask, the mask entry of a position broadcast
\* over the entries of its matrix
MaskMatrixNotApplied(m, mask) == m
MaskMatrix(m, mask) ==
    SubSeq([p \in DOMAIN m |->
               Matrix([r \in Coords |-> [c \in Coords |-> m[p][r][c] * mask[p]]])],
           1, Len(m))

\* torch.norm(m, dim=dim) of one matrix: the norms of its rows for dim = -1,
\* of its columns for dim = -2
NormsAlong(M, dim) ==
    Vector([k \in Coords |-> IF dim = -1 THEN Norm(M[k]) ELSE Norm(Column(M, k))])

\* one term of MSELoss: (input - target) ** 2
SquaredError(a, b) == Quot((a - b) * (a - b), One)

\* the terms of MSELoss(norms, ones) that one position contributes
NormErrorAt(M, axes) ==
    SumOf([i \in 1..(Len(axes) * Dim) |->
              SquaredError(NormsAlong(M, axes[((i - 1) \div Dim) + 1])[((i - 1) % Dim) + 1],
                           One)],
          Len(axes) * Dim)

\* matrix_norm_loss of one layer's matrices, loss type "MSE": the mean over all
\* the norms of all the positions
NormLossOf(m, mask, axes) ==
    Then(MaskMatrix(m, mask), LAMBDA mm :
    Quot(SumOf([p \in 1..Len(mm) |-> NormErrorAt(mm[p], axes)], Len(mm)),
         Len(mm) * Len(axes) * Dim))

\* torch.bmm(m, m_tr) of one matrix
ProductWithTranspose(M) ==
    Matrix([r \in Coords |-> [c \in Coords |-> Quot(Dot(M[r], M[c], Dim), One)]])

\* the terms of MSELoss(product, unitary_target) that one position contributes
UnitaryErrorAt(M) ==
    Then(ProductWithTranspose(M), LAMBDA product :
    SumOf([i \in 1..(Dim * Dim) |->
              SquaredError(product[((i - 1) \div Dim) + 1][((i - 1) % Dim) + 1],
                           IF (i - 1) \div Dim = (i - 1) % Dim THEN One ELSE 0)],
          Dim * Dim))

\* matrix_unitary_loss of one layer's matrices.  For "MSE" the mean over the
\* entries of all the products; for "CrossEntropy" the value is known by the
\* logits the loss function is given, the products of all the positions
UnitaryLossOf(m, mask, type) ==
    Then(MaskMatrix(m, mask), LAMBDA mm :
    IF type = "MSE"
    THEN Quot(SumOf([p \in 1..Len(mm) |-> UnitaryErrorAt(mm[p])], Len(mm)),
              Len(mm) * Dim * Dim)
    ELSE SubSeq([p \in 1..Len(mm) |-> ProductWithTranspose(mm[p])], 1, Len(mm)))

\* input_ids.ne(padding_idx).int(), one row
Ne(input_ids, padding_idx) ==
    SubSeq([i \in DOMAIN input_ids |-> IF input_ids[i] # padding_idx THEN 1 ELSE 0],
           1, Len(input_ids))

\* torch.cumsum(mask, dim=1), one row
Cumsum(mask) == SubSeq([i \in DOMAIN mask |-> SumOf(mask, i)], 1, Len(mask))

\* create_position_ids_from_input_ids, one row
CreatePositionIdsCountingPadding(input_ids, padding_idx, past_vectors_length) ==
    SubSeq([i \in DOMAIN input_ids |->
               (i + past_vectors_length) * Ne(input_ids, padding_idx)[i] + padding_idx],
           1, Len(input_ids))
CreatePositionIds(input_ids, padding_idx, past_vectors_length) ==
    Then(Ne(input_ids, padding_idx), LAMBDA mask :
    SubSeq([i \in DOMAIN input_ids |->
               (Cumsum(mask)[i] + past_vectors_length) * mask[i] + padding_idx],
           1, Len(input_ids)))

\* position_ids = create_position_ids_from_input_ids(input_ids, padding_idx, past)
CreatePositionIdsCall ==
    /\ pure.fn = "create_position_ids_from_input_ids"
    /\ pure.status = "call"
    /\ pure' = [pure EXCEPT !.status = "done",
                   !.position_ids = CreatePositionIds(pure.input_ids, pure.padding_idx,
                                                      pure.past_vectors_length)]
    /\ UNCHANGED <<scan, scan2, layer, encoder>>
    /\ UNCHANGED varsLM
    /\ UNCHANGED varsRace

\* the auxiliary losses of two forward calls with labels, one call per step
AuxLossCall ==
    /\ pure.fn = "aux_losses"
    /\ pure.status \in {"call", "second"}
    /\ pure' =
         IF pure.status = "call"
         THEN [pure EXCEPT !.status = "second",
                  !.matrix_norm_loss = NormLossOf(pure.m, pure.mask, pure.axes),
                  !.matrix_unitary_loss = UnitaryLossOf(pure.m, pure.mask, pure.unitary)]
         ELSE [pure EXCEPT !.status = "done",
                  !.matrix_norm_loss2 = NormLossOf(pure.m2, pure.mask2, pure.axes),
                  !.matrix_unitary_loss2 = UnitaryLossOf(pure.m2, pure.mask2, pure.unitary)]
    /\ UNCHANGED <<scan, scan2, layer, encoder>>
    /\ UNCHANGED varsLM
    /\ UNCHANGED varsRace

-----------------------------------------------------------------------------
(* Parked values of the parts a specification does not exercise.           *)

NoPure == [fn |-> "none"]

RaceIdle ==
    /\ pc = [t \in Callers |-> "idle"]
    /\ reg = [t \in Callers |-> 0]
    /\ nsuppressed = 0
    /\ overlapped = FALSE

ScanIdle ==
    /\ scan = NoScan /\ scan2 = NoScan /\ layer = NoLayer /\ encoder = NoEncoder
    /\ pure = NoPure

LMIdle ==
    /\ training = TRUE
    /\ ncalls = 0
    /\ nlabelled = 0
    /\ last = NoCall

-----------------------------------------------------------------------------
(* Sequential use of one masked-LM model.                                  *)

\* ConvnetForMaskedLM.__init__
Init ==
    /\ config \in Configs
    /\ preheat_counter = config.matrix_norm_preheat_steps
    /\ LMIdle
    /\ RaceIdle
    /\ ScanIdle

Next ==
    \/ \E mode \in BOOLEAN : SetTraining(mode)
    \/ \E ids \in IdsForms, labels \in BOOLEAN, task \in TaskLossValues,
          norm \in AuxLossValues, unitary \in AuxLossValues :
          Forward(ids, labels, task, norm, unitary)

Spec == Init /\ [][Next]_vars

-----------------------------------------------------------------------------
(* Concurrent use of one masked-LM model.                                  *)

InitRace ==
    /\ config \in {c \in Configs : /\ c.matrix_norm_loss_type = "None"
                                   /\ c.matrix_unitary_loss = "None"
                                   /\ c.matrix_norm_loss_k = 1
                                   /\ c.matrix_unitary_loss_k = 1}
    /\ preheat_counter = config.matrix_norm_preheat_steps
    /\ LMIdle
    /\ RaceIdle
    /\ ScanIdle

NextRace ==
    \E t \in Callers :
        \/ RaceBegin(t)
        \/ RaceTest(t)
        \/ RaceLoad(t)
        \/ RaceStore(t)

SpecRace == InitRace /\ [][NextRace]_vars

-----------------------------------------------------------------------------
(* One calculate_vectors call, iteration by iteration.                     *)

LMParked ==
    /\ config = [matrix_norm_preheat_steps |-> 0, matrix_norm_loss_type |-> "None",
                 matrix_unitary_loss |-> "None", matrix_norm_loss_k |-> 1,
                 matrix_unitary_loss_k |-> 1]
    /\ preheat_counter = 0
    /\ LMIdle

InitScan ==
    /\ \E a \in ScanArgs(Matrices, MaxLen) :
          /\ (~a.has_mask => \A p \in DOMAIN a.mask : a.mask[p] = 1)
          /\ scan = ScanCalled(a)
    /\ scan2 = NoScan
    /\ layer = NoLayer
    /\ encoder = NoEncoder
    /\ pure = NoPure
    /\ LMParked
    /\ RaceIdle

NextScan == ScanStep

SpecScan == InitScan /\ [][NextScan]_vars

-----------------------------------------------------------------------------
(* Two calculate_vectors calls side by side.                               *)

PairMatrices == {Swap, Shear}

\* the two calls agree on everything but the matrices at positions with mask 0
InitPadding ==
    /\ \E a \in ScanArgs(PairMatrices, MaxLen) :
          \E m2 \in [DOMAIN a.m -> PairMatrices] :
              /\ a.has_mask
              /\ \A p \in DOMAIN a.m : a.mask[p] = 1 => m2[p] = a.m[p]
              /\ scan = ScanCalled(a)
              /\ scan2 = ScanCalled([a EXCEPT !.m = m2])
    /\ layer = NoLayer
    /\ encoder = NoEncoder
    /\ pure = NoPure
    /\ LMParked
    /\ RaceIdle

NextPadding == PairStep

SpecPadding == InitPadding /\ [][NextPadding]_vars

\* the forward scan of a sequence beside the backward scan of its reversal,
\* without masking (no mask, or a mask of ones)
InitMirror ==
    /\ \E a \in ScanArgs(Matrices, MaxLen) :
          /\ ~a.reverse_direction
          /\ \A p \in DOMAIN a.mask : a.mask[p] = 1
          /\ scan = ScanCalled(a)
          /\ scan2 = ScanCalled([a EXCEPT !.m = Reverse(a.m),
                                          !.reverse_direction = TRUE])
    /\ layer = NoLayer
    /\ encoder = NoEncoder
    /\ pure = NoPure
    /\ LMParked
    /\ RaceIdle

NextMirror == PairStep

SpecMirror == InitMirror /\ [][NextMirror]_vars

-----------------------------------------------------------------------------
(* One forward call of the matrix layer.                                   *)

LayerMatrices == {Shear, Turn}

InitLayer ==
    /\ \E a \in LayerInputs(LayerMatrices, MaxLen) :
          /\ (~a.has_mask => \A p \in DOMAIN a.mask : a.mask[p] = 1)
          /\ layer = LayerCalled(a)
    /\ scan = NoScan
    /\ scan2 = NoScan
    /\ encoder = NoEncoder
    /\ pure = NoPure
    /\ LMParked
    /\ RaceIdle

NextLayer == LayerForward

SpecLayer == InitLayer /\ [][NextLayer]_vars

-----------------------------------------------------------------------------
(* Construction of a matrix layer and one forward call, over the          *)
(* configurations of the feature vector and of the head mixing.           *)

HeadCounts == {1, 2, 3}
HiddenSizes == {4, 6}

FeatureInputs ==
    UNION {[fc : {[p \in 1..T |-> Shear]},
            fc_j : {[p \in 1..T |-> Swap]},
            rl_lr_matrix_different : {FALSE},
            has_mask : {FALSE},
            mask : {[p \in 1..T |-> 1]},
            use_for_context : UseForContextChoices,
            vector_init_direction : {"all"},
            norm_vectors : {FALSE},
            complex_matrix : BOOLEAN,
            complex_matrix_abs : BOOLEAN,
            networks_for_heads : NetworksForHeads,
            num_matrix_heads : HeadCounts,
            hidden_size : HiddenSizes,
            matrix_norm_alg : {"None"},
            matrix_encoder_version : {1},
            output_matrices : {FALSE},
            is_decoder : {FALSE}] : T \in 1..MaxLen}

InitFeatures ==
    /\ \E a \in FeatureInputs : layer = LayerGiven(a)
    /\ scan = NoScan
    /\ scan2 = NoScan
    /\ encoder = NoEncoder
    /\ pure = NoPure
    /\ LMParked
    /\ RaceIdle

NextFeatures == LayerInit \/ LayerForward

SpecFeatures == InitFeatures /\ [][NextFeatures]_vars

\* construction and one forward call over the matrix normalizations
EncodingInputs ==
    UNION {[fc : [1..T -> LayerMatrices],
            fc_j : {[p \in 1..T |-> Swap]},
            rl_lr_matrix_different : BOOLEAN,
            has_mask : {FALSE},
            mask : {[p \in 1..T |-> 1]},
            use_for_context : {<<"lr">>, <<"rl">>, <<"lr", "rl">>},
            vector_init_direction : {"one"},
            norm_vectors : {FALSE},
            complex_matrix : {FALSE},
            complex_matrix_abs : {FALSE},
            networks_for_heads : {"None"},
            num_matrix_heads : {2},
            hidden_size : {4},
            matrix_norm_alg : MatrixNormAlgs,
            matrix_encoder_version : {1, 2},
            output_matrices : BOOLEAN,
            is_decoder : {FALSE}] : T \in 1..MaxLen}

InitEncoding ==
    /\ \E a \in EncodingInputs : layer = LayerGiven(a)
    /\ scan = NoScan
    /\ scan2 = NoScan
    /\ encoder = NoEncoder
    /\ pure = NoPure
    /\ LMParked
    /\ RaceIdle

SpecEncoding == InitEncoding /\ [][NextFeatures]_vars

\* construction of the layers and one forward call of the model
ModelInputs ==
    UNION {[fc : {[p \in 1..T |-> Shear]},
            fc_j : {[p \in 1..T |-> Swap]},
            rl_lr_matrix_different : BOOLEAN,
            has_mask : {FALSE},
            mask : {[p \in 1..T |-> 1]},
            use_for_context : {<<"lr">>, <<"rl">>, <<"lr", "rl">>},
            vector_init_direction : {"one"},
            norm_vectors : {FALSE},
            complex_matrix : {FALSE},
            complex_matrix_abs : {FALSE},
            networks_for_heads : {"None"},
            num_matrix_heads : {2},
            hidden_size : {4, 8},
            matrix_norm_alg : {"None"},
            matrix_encoder_version : {1},
            output_matrices : BOOLEAN,
            is_decoder : BOOLEAN] : T \in 1..MaxLen}

InitModel ==
    /\ \E a \in ModelInputs : layer = LayerGiven(a)
    /\ \E c \in EncoderCalls : encoder = EncoderCalled(c)
    /\ pure = NoPure
    /\ scan = NoScan
    /\ scan2 = NoScan
    /\ LMParked
    /\ RaceIdle

NextModel == LayerInit \/ ModelForward

SpecModel == InitModel /\ [][NextModel]_vars

\* one forward call of the model over the optional inputs it can be given
OptionalInputLayers ==
    UNION {[fc : {[p \in 1..T |-> Shear]},
            fc_j : {[p \in 1..T |-> Swap]},
            rl_lr_matrix_different : {FALSE},
            has_mask : {FALSE},
            mask : {[p \in 1..T |-> 1]},
            use_for_context : {<<"lr">>, <<"rl">>},
            vector_init_direction : {"one"},
            norm_vectors : {FALSE},
            complex_matrix : {FALSE},
            complex_matrix_abs : {FALSE},
            networks_for_heads : {"None"},
            num_matrix_heads : {2},
            hidden_size : {4},
            matrix_norm_alg : {"None"},
            matrix_encoder_version : {1},
            output_matrices : {FALSE},
            is_decoder : BOOLEAN] : T \in 1..MaxLen}

InitOptionalInputs ==
    /\ \E a \in OptionalInputLayers : layer = LayerGiven(a)
    /\ \E c \in OptionalInputCalls : encoder = EncoderCalled(c)
    /\ pure = NoPure
    /\ scan = NoScan
    /\ scan2 = NoScan
    /\ LMParked
    /\ RaceIdle

SpecOptionalInputs == InitOptionalInputs /\ [][NextModel]_vars

\* make_orthogonal over the matrices with entries -1, 0 and 1
OrthoEntries == {-One, 0, One}

OrthoInputs == {Matrix(M) : M \in [Coords -> [Coords -> OrthoEntries]]}

InitOrtho ==
    /\ \E z \in OrthoInputs :
          pure = [fn |-> "make_orthogonal", status |-> "call", z |-> z,
                  q |-> z, nan |-> {}]
    /\ scan = NoScan
    /\ scan2 = NoScan
    /\ layer = NoLayer
    /\ encoder = NoEncoder
    /\ LMParked
    /\ RaceIdle

NextOrtho == MakeOrthogonalCall

SpecOrtho == InitOrtho /\ [][NextOrtho]_vars

\* the auxiliary losses of two calls with labels on one lane.  The second call
\* either differs from the first in the matrices at positions with mask 0
\* only, or is the first with its positions of mask 0 removed.
LossMatrices == {Identity, Shear}

\* the entries of a sequence at the positions where the mask is 1, in order
RECURSIVE Unmasked(_, _)
Unmasked(m, mask) ==
    IF m = <<>> THEN <<>>
    ELSE (IF Head(mask) = 1 THEN <<Head(m)>> ELSE <<>>) \o Unmasked(Tail(m), Tail(mask))

AuxLossPairs ==
    UNION {
      {[relation |-> "differ_on_padding", m |-> m, mask |-> mask, m2 |-> m2, mask2 |-> mask] :
          m2 \in {x \in [1..T -> LossMatrices] : \A p \in 1..T : mask[p] = 1 => x[p] = m[p]}}
      \cup
      (IF \E p \in 1..T : mask[p] = 1
       THEN {[relation |-> "padding_removed", m |-> m, mask |-> mask,
              m2 |-> Unmasked(m, mask),
              mask2 |-> [p \in 1..Len(Unmasked(m, mask)) |-> 1]]}
       ELSE {})
      : <<T, m, mask>> \in
            UNION {{<<T, m, mask>> : m \in [1..T -> LossMatrices], mask \in [1..T -> {0, 1}]}
                   : T \in 1..MaxLen}}

InitAuxLoss ==
    /\ \E a \in AuxLossPairs, axes \in {<<-1>>, <<-1, -2>>},
          unitary \in {"MSE", "CrossEntropy"} :
          pure = [fn |-> "aux_losses", status |-> "call", relation |-> a.relation,
                  axes |-> axes, unitary |-> unitary,
                  m |-> a.m, mask |-> a.mask, m2 |-> a.m2, mask2 |-> a.mask2,
                  matrix_norm_loss |-> 0, matrix_unitary_loss |-> 0,
                  matrix_norm_loss2 |-> 0, matrix_unitary_loss2 |-> 0]
    /\ scan = NoScan
    /\ scan2 = NoScan
    /\ layer = NoLayer
    /\ encoder = NoEncoder
    /\ LMParked
    /\ RaceIdle

NextAuxLoss == AuxLossCall

SpecAuxLoss == InitAuxLoss /\ [][NextAuxLoss]_vars

\* create_position_ids_from_input_ids over the rows of up to MaxLen tokens
TokenIds == {0, 1, 2}

InitPositionIds ==
    /\ \E T \in 1..MaxLen, padding_idx \in {0, 1}, past \in {0, 2} :
          \E row \in [1..T -> TokenIds] :
             pure = [fn |-> "create_position_ids_from_input_ids", status |-> "call",
                     input_ids |-> row, padding_idx |-> padding_idx,
                     past_vectors_length |-> past, position_ids |-> <<>>]
    /\ scan = NoScan
    /\ scan2 = NoScan
    /\ layer = NoLayer
    /\ encoder = NoEncoder
    /\ LMParked
    /\ RaceIdle

NextPositionIds == CreatePositionIdsCall

SpecPositionIds == InitPositionIds /\ [][NextPositionIds]_vars

\* the same configurations, the layer run inside its ConvnetMatrixBlock
NextBlock == LayerInit \/ BlockForward

SpecBlock == InitFeatures /\ [][NextBlock]_vars

\* the same configurations, handed to either variant of the layer
NextVariants == LayerInit \/ BergmanLayerInit \/ LayerForward

SpecVariants == InitFeatures /\ [][NextVariants]_vars

-----------------------------------------------------------------------------
(* Claims about the sequential preheat schedule.                           *)

PreheatSteps == config.matrix_norm_preheat_steps

\* C1: with matrix_norm_preheat_steps = N, each of the first N forward calls
\* that compute a loss reports masked_lm_loss = 0 and a total loss made of the
\* weighted auxiliary terms only; the (N+1)-th and every later one reports the
\* computed task loss; the counter is 0 after the N-th such call and stays 0.
C1_PreheatSchedule ==
    /\ preheat_counter =
          IF nlabelled >= PreheatSteps THEN 0 ELSE PreheatSteps - nlabelled
    /\ (last.status = "ok" /\ last.labels) =>
          LET aux == last.matrix_norm_loss * config.matrix_norm_loss_k
                     + last.matrix_unitary_loss * config.matrix_unitary_loss_k
          IN /\ nlabelled <= PreheatSteps =>
                   (last.masked_lm_loss = 0 /\ last.loss = aux)
             /\ nlabelled > PreheatSteps =>
                   (last.masked_lm_loss = last.task_loss
                    /\ last.loss = last.task_loss + aux)

\* the (N+1)-th labelled call of a model with N >= 2 has reported its task loss
C1_Witness ==
    /\ PreheatSteps >= 2
    /\ nlabelled = PreheatSteps + 1
    /\ last.status = "ok" /\ last.labels
    /\ last.masked_lm_loss = last.task_loss
    /\ last.matrix_norm_loss > 0
    /\ preheat_counter = 0

\* C2: over any sequence of forward calls (with or without labels) the counter
\* stays within 0..N, never increases, changes by at most 1 per call, and is
\* never changed again once it is 0.
C2_CounterMonotone ==
    /\ [](0 <= preheat_counter /\ preheat_counter <= PreheatSteps)
    /\ [][/\ preheat_counter' <= preheat_counter
          /\ preheat_counter - preheat_counter' <= 1
          /\ (preheat_counter = 0 => preheat_counter' = 0)]_vars

\* the counter of a model with N >= 2 has run down to 0 and calls with and
\* without labels were made after that
C2_Witness ==
    /\ PreheatSteps >= 2
    /\ preheat_counter = 0
    /\ last.counter_before = 0
    /\ nlabelled > PreheatSteps
    /\ ncalls > nlabelled

\* C3: a forward call in training use that computes a loss while the counter
\* is positive decrements the counter exactly once, and a forward call made in
\* evaluation mode leaves the counter unchanged.
C3_EvalDoesNotConsume ==
    [][ncalls' = ncalls + 1 =>
         /\ (training /\ last'.status = "ok" /\ last'.labels /\ preheat_counter > 0)
               => preheat_counter' = preheat_counter - 1
         /\ ~training => preheat_counter' = preheat_counter]_vars

-----------------------------------------------------------------------------
(* Claims about concurrent callers.                                        *)

Quiescent == \A t \in Callers : pc[t] = "idle"

\* what sequential calls guarantee once no call is in progress
SequentialGuarantee ==
    /\ nsuppressed <= PreheatSteps
    /\ preheat_counter >= 0
    /\ preheat_counter + nsuppressed = PreheatSteps

\* C4: two forward passes with labels sharing one model race on the counter.
\* The sequential guarantees (at most N suppressed calls, counter >= 0, no
\* lost decrement) hold whenever no call made its test while another was
\* between its test and its write, a decrement is never applied twice, and an
\* interleaving that breaks all three guarantees exists (C4_Witness).
C4_RaceOnlyByOverlap ==
    Quiescent =>
        /\ ~overlapped => SequentialGuarantee
        /\ preheat_counter + nsuppressed >= PreheatSteps

\* after an interleaving: more than N suppressed calls, the counter below 0
\* and a decrement lost
C4_Witness ==
    /\ Quiescent
    /\ nsuppressed > PreheatSteps
    /\ preheat_counter < 0
    /\ preheat_counter + nsuppressed > PreheatSteps + 1

-----------------------------------------------------------------------------
(* Claims about calculate_vectors.                                         *)

SeqLen == Len(scan.m)

\* the position the j-th loop iteration consumes, in the scan's direction
PositionOfStep(j) == IF scan.reverse_direction THEN SeqLen + 1 - j ELSE j

\* matrix @ state, divided by norm + eps when re-normalization is enabled
Updated(M, state) ==
    IF scan.norm_vectors
    THEN LET w == MatVec(M, state)
             n == Norm(w)
         IN Vector([k \in Coords |-> Quot(w[k] * One, n + VectorNormEps)])
    ELSE MatVec(M, state)

\* C5: with an attention mask, the entry appended when position i is consumed
\* equals the previous state exactly when mask[i] = 0 (not re-normalized), and
\* matrix[i] @ previous state (re-normalized when enabled) when mask[i] = 1;
\* i is the position being consumed in the scan's direction.
C5_MaskedStep ==
    scan.has_mask =>
        \A j \in 1..Len(scan.seen) :
            LET i == scan.seen[j].i
                prev == scan.seen[j].v
                entry == scan.history[j + 1]
            IN /\ i = PositionOfStep(j)
               /\ prev = (IF scan.accumulate THEN scan.history[j] ELSE scan.history[1])
               /\ scan.mask[i] = 0 => entry = prev
               /\ scan.mask[i] = 1 => entry = Updated(scan.m[i], prev)

\* a backward, re-normalizing scan has returned; its mask is not a palindrome,
\* the entry of the masked position (the first one consumed) is the state as it
\* was, which re-normalizing would have changed, and the later entries moved on
C5_Witness ==
    /\ scan.pc = "done" /\ scan.has_mask /\ scan.reverse_direction
    /\ scan.norm_vectors /\ scan.accumulate
    /\ SeqLen = 3
    /\ scan.mask = <<1, 1, 0>>
    /\ scan.history[2] = scan.history[1]
    /\ scan.history[2] # Updated(scan.m[3], scan.history[1])
    /\ scan.history[2] # Updated(Identity, scan.history[1])
    /\ scan.history[3] # scan.history[2]

\* the mask is 1 everywhere except at position k
SingleZero(k) ==
    /\ scan.has_mask
    /\ \A p \in 1..SeqLen : scan.mask[p] = (IF p = k THEN 0 ELSE 1)

\* the loop iteration that consumes position k
StepOfPosition(k) == IF scan.reverse_direction THEN SeqLen + 1 - k ELSE k

\* a sequence without its k-th element
Without(q, k) == SubSeq(q, 1, k - 1) \o SubSeq(q, k + 1, Len(q))

\* the arguments of the running call with position k deleted
ArgsWithout(k) ==
    [m |-> Without(scan.m, k), has_mask |-> scan.has_mask,
     mask |-> Without(scan.mask, k), accumulate |-> scan.accumulate,
     init_type |-> scan.init_type, reverse_direction |-> scan.reverse_direction,
     norm_vectors |-> scan.norm_vectors, complex_matrix |-> scan.complex_matrix]

\* C6 as stated: with a mask that is 0 at position k only, the state at every
\* position from k on (in scan order) equals the state before position k.
C6_FrozenFromMaskedStepOn ==
    \A k \in 1..SeqLen :
        (scan.pc = "done" /\ scan.accumulate /\ SingleZero(k)) =>
            \A j \in StepOfPosition(k)..SeqLen :
                scan.history[j + 1] = scan.history[StepOfPosition(k)]

\* C6 (amended): with a mask that is 0 at position k only, the state recorded
\* for position k equals the state before it, and the positions after it (in
\* scan order) continue the recurrence from the held state: the history with
\* the held entry removed is the history of the sequence without position k.
C6_HeldForTheMaskedStep ==
    \A k \in 1..SeqLen :
        (scan.pc = "done" /\ scan.accumulate /\ SingleZero(k)) =>
            LET j == StepOfPosition(k) IN
            /\ scan.history[j + 1] = scan.history[j]
            /\ \A j2 \in (j + 1)..SeqLen :
                   scan.history[j2 + 1]
                       = Updated(scan.m[PositionOfStep(j2)], scan.history[j2])
            /\ Without(scan.history, j + 1) = CalculateVectors(ArgsWithout(k))

\* the middle position of three is masked, the state is held there and moves
\* on at the position after it
C6_Witness ==
    /\ scan.pc = "done" /\ scan.accumulate /\ SeqLen = 3 /\ SingleZero(2)
    /\ scan.history[3] = scan.history[2]
    /\ scan.history[2] # scan.history[1]
    /\ scan.history[4] # scan.history[3]

\* C8: the returned history has T+1 entries, entry 0 is the initial vector
\* ('one': first basis vector, 'all': every component 1/sqrt(dim)), and in the
\* forward accumulating scan without masking entry i is matrix[i-1] applied to
\* entry i-1 (re-normalized when norm_vectors is set).
C8_HistoryShape ==
    scan.pc = "done" =>
        /\ Len(scan.history) = SeqLen + 1
        /\ scan.init_type = "one" =>
               \A k \in Coords : scan.history[1][k] = (IF k = 1 THEN One ELSE 0)
        /\ scan.init_type = "all" =>
               \A k \in Coords :
                   LET c == scan.history[1][k] IN
                   /\ c > 0
                   /\ (c - 1) * (c - 1) * Dim <= One * One
                   /\ One * One <= (c + 1) * (c + 1) * Dim
        /\ (/\ ~scan.reverse_direction
            /\ scan.accumulate
            /\ \A p \in 1..SeqLen : scan.mask[p] = 1) =>
               \A i \in 1..SeqLen :
                   scan.history[i + 1] = Updated(scan.m[i], scan.history[i])

\* a forward accumulating scan over three positions has returned, from 'all'
C8_Witness ==
    /\ scan.pc = "done" /\ SeqLen = 3 /\ scan.init_type = "all"
    /\ ~scan.reverse_direction /\ scan.accumulate /\ ~scan.has_mask
    /\ Len(scan.history) = 4
    /\ scan.history[4] # scan.history[3]
    /\ scan.history[3] # scan.history[2]

-----------------------------------------------------------------------------
(* Claims about two calls.                                                 *)

\* C7: two calls that agree on the initial vector, the mask, the direction and
\* the matrices at every position with mask 1 build the same history, entry by
\* entry, whatever the matrices at the positions with mask 0 (with and without
\* accumulation).
C7_PaddingHasNoInfluence == scan.history = scan2.history

\* both calls returned; they differ in the matrix of a masked position, the
\* state moved at the unmasked ones, and applying the differing matrices to the
\* state held there would have given different entries
C7_Witness ==
    /\ scan.pc = "done" /\ scan2.pc = "done"
    /\ SeqLen = 3
    /\ scan.mask = <<1, 0, 1>>
    /\ scan.m[2] # scan2.m[2]
    /\ scan.reverse_direction
    /\ scan.history[2] # scan.history[1]
    /\ scan.history[4] # scan.history[3]
    /\ Updated(scan.m[2], scan.history[2]) # Updated(scan2.m[2], scan2.history[2])

\* C9 as stated: the history the backward scan returns for the reversed
\* sequence, reversed, equals the history the forward scan returns.
C9_ReversedBackwardHistory ==
    (scan.pc = "done" /\ scan2.pc = "done") =>
        Reverse(scan2.history) = scan.history

\* C9 (amended): the backward scan of the reversed sequence returns the same
\* history as the forward scan of the sequence, entry by entry and without
\* reversing it (both are in the order of consumption); it is the positional
\* 'rl' view of the reversed sequence that, reversed, equals the 'lr' view.
C9_MirrorSameHistory ==
    /\ scan2.history = scan.history
    /\ (scan.pc = "done" /\ scan2.pc = "done") =>
           Reverse(ViewRl(scan2.history)) = ViewLr(scan.history)

\* both scans returned over three matrices that do not commute, and the
\* history is not a palindrome
C9_Witness ==
    /\ scan.pc = "done" /\ scan2.pc = "done"
    /\ SeqLen = 3
    /\ scan.m # scan2.m
    /\ scan.accumulate
    /\ scan.history # Reverse(scan.history)
    /\ MatVec(scan.m[2], MatVec(scan.m[1], scan.history[1]))
         # MatVec(scan.m[1], MatVec(scan.m[2], scan.history[1]))

-----------------------------------------------------------------------------
(* Claims about the context views.                                         *)

ContextLen == Len(layer.m_norm_lr)

\* the forward state after consuming positions 1..i: position by position, a
\* position with mask 0 leaves the state as it is
RECURSIVE ForwardState(_)
ForwardState(i) ==
    IF i = 0 THEN InitVector(layer.vector_init_direction)
    ELSE LET before == ForwardState(i - 1)
             w == MatVec(layer.m_norm_lr[i], before)
         IN IF layer.has_mask /\ layer.mask[i] = 0 THEN before
            ELSE IF layer.norm_vectors
            THEN Vector([k \in Coords |-> Quot(w[k] * One, Norm(w) + VectorNormEps)])
            ELSE w

\* C10: at every position i, 'lr' holds the forward state after consuming the
\* tokens up to and including i, 'lr_excl' the forward state before consuming
\* token i (the initial vector at the first position, lr[i-1] otherwise), and
\* 'global' the last element of the forward history (lr at the last position).
C10_ForwardViews ==
    (layer.status \in {"ok", "TypeError"} /\ "lr" \in layer.available) =>
        /\ {"lr", "lr_excl", "global"} \subseteq layer.available
        /\ \A i \in 1..ContextLen :
            /\ layer.views["lr"][i] = ForwardState(i)
            /\ layer.views["lr_excl"][i] = ForwardState(i - 1)
            /\ layer.views["lr_excl"][i] =
                 (IF i = 1 THEN InitVector(layer.vector_init_direction)
                  ELSE layer.views["lr"][i - 1])
            /\ layer.views["global"][i] = ForwardState(ContextLen)
            /\ layer.views["global"][i] = layer.views["lr"][ContextLen]

\* a forward call over three positions built the feature vector from 'global'
\* and 'lr_excl'; the forward state changed at every position
C10_Witness ==
    /\ layer.status = "ok"
    /\ layer.use_for_context = <<"global", "lr_excl">>
    /\ ContextLen = 3
    /\ layer.views["lr"][1] # InitVector(layer.vector_init_direction)
    /\ layer.views["lr"][2] # layer.views["lr"][1]
    /\ layer.views["lr"][3] # layer.views["lr"][2]
    /\ layer.x[2] = layer.views["lr"][3] \o layer.views["lr"][1]

\* the backward state after consuming positions T down to i: position by
\* position with the matrices of the backward scan, a position with mask 0
\* leaves the state as it is
RECURSIVE BackwardState(_)
BackwardState(i) ==
    IF i = ContextLen + 1 THEN InitVector(layer.vector_init_direction)
    ELSE LET before == BackwardState(i + 1)
             w == MatVec(layer.m_norm_rl[i], before)
         IN IF layer.has_mask /\ layer.mask[i] = 0 THEN before
            ELSE IF layer.norm_vectors
            THEN Vector([k \in Coords |-> Quot(w[k] * One, Norm(w) + VectorNormEps)])
            ELSE w

\* the layer call on the reversed sequence, the forward scan reading the
\* matrices the backward scan reads here
Mirrored(l) ==
    [l EXCEPT !.m_norm_lr = Reverse(l.m_norm_rl), !.m_norm_rl = Reverse(l.m_norm_lr),
              !.mask = Reverse(l.mask)]

\* C11: at every position i, 'rl' holds the backward state after consuming the
\* tokens from the last one down to and including i, 'rl_excl' the backward
\* state after consuming the tokens down to i+1 (the initial vector at the last
\* position, rl[i+1] otherwise); 'rl' and 'rl_excl' are 'lr' and 'lr_excl' of
\* the reversed sequence, put back in natural order.
C11_BackwardViews ==
    (layer.status \in {"ok", "TypeError"} /\ "rl" \in layer.available) =>
        /\ {"rl", "rl_excl"} \subseteq layer.available
        /\ \A i \in 1..ContextLen :
            /\ layer.views["rl"][i] = BackwardState(i)
            /\ layer.views["rl_excl"][i] = BackwardState(i + 1)
            /\ layer.views["rl_excl"][i] =
                 (IF i = ContextLen THEN InitVector(layer.vector_init_direction)
                  ELSE layer.views["rl"][i + 1])
        /\ layer.views["rl"] = Reverse(ViewOf(Mirrored(layer), "lr"))
        /\ layer.views["rl_excl"] = Reverse(ViewOf(Mirrored(layer), "lr_excl"))

\* a forward call over three positions built the feature vector from 'lr' and
\* 'rl'; the backward state changed at every position and the two directions
\* disagree
C11_Witness ==
    /\ layer.status = "ok"
    /\ layer.use_for_context = <<"lr", "rl">>
    /\ ContextLen = 3
    /\ layer.views["rl"][3] # InitVector(layer.vector_init_direction)
    /\ layer.views["rl"][2] # layer.views["rl"][3]
    /\ layer.views["rl"][1] # layer.views["rl"][2]
    /\ layer.views["rl"] # layer.views["lr"]
    /\ layer.views["rl"] # Reverse(layer.views["lr"])
    /\ layer.x[1] = layer.views["lr"][1] \o layer.views["rl"][1]

\* matrix[i] applied to the initial vector, as position i of the local scan
\* stores it
LocalState(i) ==
    LET v == InitVector(layer.vector_init_direction)
        w == MatVec(layer.m_norm_lr[i], v)
    IN IF layer.norm_vectors
       THEN Vector([k \in Coords |-> Quot(w[k] * One, Norm(w) + VectorNormEps)])
       ELSE w

\* where the part of view number j starts in the feature vector, less one
Offset(j) == (j - 1) * Dim

\* C12: when 'local' is one of the selected views, the forward call completes
\* and the 'local' part of the feature vector at every unmasked position i is
\* matrix[i] applied to the initial vector.
C12_LocalViewWorks ==
    (/\ layer.status \notin {"none", "call"}
     /\ "local" \in Used(layer)
     /\ layer.vector_init_direction \in {"one", "all"}) =>
        /\ layer.status = "ok"
        /\ \A i \in 1..ContextLen, j \in DOMAIN layer.use_for_context :
              (layer.use_for_context[j] = "local"
               /\ (layer.has_mask => layer.mask[i] = 1)) =>
                 SubSeq(layer.x[i], Offset(j) + 1, Offset(j) + Dim) = LocalState(i)

-----------------------------------------------------------------------------
(* Claims about the feature vector and the head mixing.                    *)

\* the part of x at position i that view number j of use_for_context fills
PartOfView(i, j) ==
    LET w == Len(layer.x[i]) \div Len(layer.use_for_context)
    IN SubSeq(layer.x[i], (j - 1) * w + 1, j * w)

C15_ShapeForEveryAcceptedHiddenSize ==
    (/\ layer.constructed
     /\ layer.status # "call"
     /\ layer.use_for_context = <<"lr">>
     /\ layer.networks_for_heads = "None"
     /\ layer.num_matrix_heads = 2
     /\ layer.matrix_norm_alg = "None") =>
        /\ layer.status = "ok"
        /\ layer.width = layer.hidden_size
        /\ layer.block_width = layer.hidden_size

-----------------------------------------------------------------------------
(* Claims about the matrix encoder.                                        *)

\* what fc_to_mat produced, in the order forward collects it
Predicted == layer.fc \o layer.fc_rl

\* C16: the matrices a layer returns are the predictor's matrices before
\* normalization, for every matrix_norm_alg; the normalized matrices drive the
\* scans and are not among the returned items.
C16_ReturnedMatricesAreNotNormalized ==
    (layer.status = "ok") =>
        /\ \A j \in DOMAIN layer.outputs : layer.outputs[j] \in {"x", "m"}
        /\ ("m" \in {layer.outputs[j] : j \in DOMAIN layer.outputs}) = layer.output_matrices
        /\ layer.output_matrices => layer.matrices = Predicted
        /\ ~layer.output_matrices => layer.matrices = <<>>
        /\ layer.m_norm_lr =
             [p \in DOMAIN layer.fc |-> NormalizeMatrix(layer.matrix_norm_alg, layer.fc[p])]
        /\ "lr" \in layer.available =>
             layer.views["lr"] = Tail(CalculateVectors(LrArgs(layer)))

\* a call with the Frobenius normalization returned the matrices: the
\* normalized ones differ from the returned ones at every position and the
\* scan ran on the normalized ones
C16_Witness ==
    /\ layer.status = "ok"
    /\ layer.matrix_norm_alg = "axes"
    /\ layer.output_matrices
    /\ layer.outputs = <<"x", "m">>
    /\ layer.use_for_context = <<"lr">>
    /\ layer.fc = <<Shear, Shear>>
    /\ layer.matrices = layer.fc
    /\ \A p \in 1..2 : layer.m_norm_lr[p] # layer.matrices[p]
    /\ layer.views["lr"][1] = MatVec(layer.m_norm_lr[1], InitVector("one"))
    /\ layer.views["lr"][1] # MatVec(layer.matrices[1], InitVector("one"))

-----------------------------------------------------------------------------
(* Claims about the encoder and the base model.                            *)

\* C17: when output_matrices is set the encoder collects exactly one matrix
\* tensor per layer, each of shape [sequence_length, batch_size,
\* num_matrix_heads, matrix_dim, matrix_dim], rl_lr_matrix_different included,
\* and mask_matrix applies to each.
C17_OneMatrixTensorPerLayer ==
    (encoder.status = "ok" /\ layer.output_matrices) =>
        /\ encoder.all_matrices.kind = "tuple"
        /\ Len(encoder.all_matrices.tensors) = encoder.num_hidden_layers
        /\ \A i \in 1..encoder.num_hidden_layers :
              LET m == encoder.all_matrices.tensors[i] IN
              /\ m.tag = "matrices" /\ m.layer = i
              /\ m.shape = <<Len(layer.fc), encoder.batch_sz, layer.num_matrix_heads, Dim, Dim>>
              /\ MaskMatrixStatus(m, Len(layer.fc), encoder.batch_sz) = "ok"

\* C18: the tuple-style return of the encoder and of the base model carries
\* the items of the object-style return: the final hidden states, the tuple of
\* all hidden states (num_hidden_layers + 1 entries) when output_hidden_states
\* is set, and the per-layer matrices when output_matrices is set.
C18_TupleCarriesTheSameItems ==
    (encoder.status = "ok" /\ ~encoder.return_dict) =>
        LET run == layer
            enc == EncoderObject(encoder, layer, run)
            mod == ModelObject(encoder, layer, run)
        IN /\ encoder.returned
                = NotNone(<<enc.last_hidden_state, enc.hidden_states, enc.matrices>>)
           /\ encoder.model_returned
                = NotNone(<<mod.last_hidden_state, mod.pooler_output,
                            mod.hidden_states, mod.matrices>>)
           /\ encoder.output_hidden_states =>
                \E j \in DOMAIN encoder.returned :
                    /\ encoder.returned[j].kind = "tuple"
                    /\ Len(encoder.returned[j].tensors) = encoder.num_hidden_layers + 1
                    /\ encoder.returned[j].tensors[1].tag = "hidden_states"

\* the five recognized forms of matrix_norm_alg
RecognizedNormAlgs == {"None", "axis-1", "axis-2", "axes", "det", "ortho"}

\* the layer was constructed and its forward call has returned or raised
ForwardDone == layer.constructed /\ layer.status # "call"

\* C19 as stated: construction succeeds whatever matrix_norm_alg is; the
\* forward call accepts each of the five recognized forms and fails for every
\* other value.
C19_FiveFormsAcceptedAtCallTime ==
    /\ layer.status # "config" => layer.constructed
    /\ ForwardDone =>
         IF layer.matrix_norm_alg \in RecognizedNormAlgs THEN layer.status = "ok"
         ELSE layer.status \in {"KeyError", "AssertionError"}

\* C19, amended: construction succeeds whatever matrix_norm_alg is.  The
\* forward call of the version 1 predictor accepts each of the five recognized
\* forms and raises KeyError for an unrecognized value (AssertionError for a
\* list of another length than 2); the forward call of the version 2 predictor
\* accepts None only and raises AssertionError for every other value, the
\* recognized forms included.
C19_ValidatedAtCallTime ==
    /\ layer.status # "config" => layer.constructed
    /\ ForwardDone =>
         IF layer.matrix_encoder_version = 1
         THEN CASE layer.matrix_norm_alg \in RecognizedNormAlgs -> layer.status = "ok"
                [] layer.matrix_norm_alg = "axes3" -> layer.status = "AssertionError"
                [] OTHER -> layer.status = "KeyError"
         ELSE IF layer.matrix_norm_alg = "None" THEN layer.status = "ok"
         ELSE layer.status = "AssertionError"

\* a version 2 predictor was constructed with "det" and its forward call
\* raised the assertion before any scan ran
C19_Witness ==
    /\ layer.constructed
    /\ layer.matrix_encoder_version = 2
    /\ layer.matrix_norm_alg = "det"
    /\ layer.status = "AssertionError"
    /\ layer.m_norm_lr = <<>> /\ layer.x = <<>>

\* C20: for each of the four head-mixing policies, a hidden_size that is not a
\* multiple of num_matrix_heads makes the construction of the matrix layer
\* fail with the configuration error: the layer is never constructed.
C20_NonMultipleHiddenSizeRejected ==
    (/\ layer.status # "config"
     /\ layer.networks_for_heads \in {"None", "separate", "separate_sum", "common"}
     /\ layer.hidden_size % layer.num_matrix_heads # 0)
    => (layer.status = "ValueError" /\ ~layer.constructed)

\* the values of networks_for_heads that the claim calls the four policies
Policies == {"None", "separate", "separate_sum", "common"}

\* C21 as stated: each of the four policies is accepted, and an unrecognized
\* policy passes construction and is rejected by the forward call.
C21_PolicyCheckedAtFirstUse ==
    layer.status # "config" =>
        IF layer.networks_for_heads \in Policies
        THEN layer.status # "KeyError"
        ELSE layer.constructed /\ layer.status \in {"call", "KeyError"}

\* C21, amended: the validity check is made at construction.  In the Convnet
\* variant each of the four policies passes it and any other value raises
\* KeyError from __init__, so that no layer exists to be called; the Bergman
\* variant knows None, "separate" and "common" only and raises the same error
\* for "separate_sum" too (after its hidden_size check).
C21_PolicyCheckedAtConstruction ==
    layer.status # "config" =>
        IF layer.variant = "convnet"
        THEN IF layer.networks_for_heads \in Policies
             THEN layer.status # "KeyError"
             ELSE layer.status = "KeyError" /\ ~layer.constructed
        ELSE IF layer.networks_for_heads \in Policies \ {"separate_sum"}
             THEN layer.status # "KeyError"
             ELSE layer.status \in {"KeyError", "ValueError"} /\ ~layer.constructed

\* an unrecognized policy has been rejected by the Convnet constructor
C21_Witness ==
    /\ layer.variant = "convnet"
    /\ layer.networks_for_heads = "other"
    /\ layer.status = "KeyError"
    /\ ~layer.constructed
    /\ layer.x = <<>>

\* the call supplies an input of a feature that is not implemented
SuppliesUnimplemented ==
    \/ encoder.encoder_hidden_states
    \/ encoder.encoder_attention_mask
    \/ encoder.head_mask
    \/ encoder.past_vectors
    \/ (layer.is_decoder /\ encoder.use_cache)

\* C22: a model forward call that supplies encoder_hidden_states,
\* encoder_attention_mask, a head mask, past vectors, or use_cache in a decoder
\* configuration never returns a result: it ends in an error.
C22_UnimplementedInputsAlwaysFail ==
    (encoder.status \notin {"none", "call"} /\ SuppliesUnimplemented)
    => encoder.status \in {"AssertionError", "TypeError", "UnboundLocalError"}

\* a call of make_orthogonal has returned
OrthoDone == pure.fn = "make_orthogonal" /\ pure.status = "done"

\* two fixed point numbers within the rounding of the arithmetic, two units
Near(a, b) == a - b \in -2..2

\* Q @ Q^T is the identity within the tolerance
IsOrthogonal(Q) ==
    \A r \in Coords : \A c \in Coords :
        Near(Quot(Dot(Q[r], Q[c], Dim), One), IF r = c THEN One ELSE 0)

\* the columns of Q are those of Z, each up to its sign
SameUpToSign(Q, Z) ==
    \A c \in Coords :
        \/ Column(Q, c) = Column(Z, c)
        \/ \A r \in Coords : Q[r][c] = -Z[r][c]

\* C23: for every input matrix, singular ones included, make_orthogonal returns
\* a matrix Q without NaN whose Q @ Q^T is the identity within tolerance, and
\* an input that is orthogonal already comes back the same up to sign.
C23_OrthoOfEveryMatrix ==
    OrthoDone =>
        /\ pure.nan = {}
        /\ IsOrthogonal(pure.q)
        /\ (IsOrthogonal(pure.z) => SameUpToSign(pure.q, pure.z))

\* both calls of a pair have computed their auxiliary losses
AuxLossDone == pure.fn = "aux_losses" /\ pure.status = "done"

\* C24: two calls with labels that agree on the attention mask and on the
\* matrices at every position with mask 1 have the same matrix_norm_loss and
\* the same matrix_unitary_loss, whatever the matrices at the positions with
\* mask 0 are.
C24_AuxLossesIgnorePaddedMatrices ==
    (AuxLossDone /\ pure.relation = "differ_on_padding") =>
        /\ pure.matrix_norm_loss = pure.matrix_norm_loss2
        /\ pure.matrix_unitary_loss = pure.matrix_unitary_loss2

\* the two calls differ at a padded position, and the padded position costs
\* something: the norm loss is not 0
C24_Witness ==
    /\ AuxLossDone
    /\ pure.relation = "differ_on_padding"
    /\ \E p \in DOMAIN pure.m : pure.mask[p] = 0 /\ pure.m[p] # pure.m2[p]
    /\ \E p \in DOMAIN pure.m : pure.mask[p] = 1 /\ pure.m[p] = Shear
    /\ pure.unitary = "MSE"
    /\ pure.matrix_norm_loss > 0
    /\ pure.matrix_unitary_loss > 0

\* C28: positions with mask 0 contribute nothing to the auxiliary losses: the
\* losses of a call equal the losses of the call made on its positions with
\* mask 1 only.  (For the unitarity loss the "MSE" type is compared.)
C28_PaddingContributesNoPenalty ==
    (AuxLossDone /\ pure.relation = "padding_removed") =>
        /\ pure.matrix_norm_loss = pure.matrix_norm_loss2
        /\ (pure.unitary = "MSE" => pure.matrix_unitary_loss = pure.matrix_unitary_loss2)

\* position i is not padding
Unpadded(i) == layer.has_mask => layer.mask[i] = 1

\* C25: away from the boundary, 'local_l' at position i holds the local value
\* of position i+1 and 'local_r' at position i holds the local value of
\* position i-1; where that neighbour is not padding, the value is the
\* neighbour's matrix applied to the initial vector.
C25_InteriorOfShiftedLocalViews ==
    (layer.status \in {"ok", "TypeError"} /\ "local_l" \in layer.available) =>
        /\ \A i \in 1..(ContextLen - 1) :
              /\ layer.views["local_l"][i] = layer.views["local"][i + 1]
              /\ Unpadded(i + 1) => layer.views["local_l"][i] = LocalState(i + 1)
        /\ \A i \in 2..ContextLen :
              /\ layer.views["local_r"][i] = layer.views["local"][i - 1]
              /\ Unpadded(i - 1) => layer.views["local_r"][i] = LocalState(i - 1)

\* a forward call over three positions built the feature vector of the middle
\* position from the local values of its two neighbours, which differ
C25_Witness ==
    /\ layer.status = "ok"
    /\ layer.use_for_context = <<"local_l", "local_r">>
    /\ ContextLen = 3
    /\ \A i \in 1..3 : Unpadded(i)
    /\ LocalState(1) # LocalState(3)
    /\ LocalState(2) # LocalState(3)
    /\ layer.x[2] = LocalState(3) \o LocalState(1)

-----------------------------------------------------------------------------
(* Claims about the position ids.                                          *)

PositionIdsDone ==
    pure.fn = "create_position_ids_from_input_ids" /\ pure.status = "done"

\* how many of the first i tokens of the row are not padding
NonPaddingUpTo(i) ==
    Cardinality({j \in 1..i : pure.input_ids[j] # pure.padding_idx})

\* C26: every padding token gets the position id padding_idx, the k-th
\* non-padding token of the row gets padding_idx + k + past_vectors_length, and
\* the ids of the non-padding tokens increase strictly along the row.
C26_PositionIdsSkipPadding ==
    PositionIdsDone =>
        /\ Len(pure.position_ids) = Len(pure.input_ids)
        /\ \A i \in DOMAIN pure.input_ids :
              pure.position_ids[i] =
                 IF pure.input_ids[i] = pure.padding_idx THEN pure.padding_idx
                 ELSE pure.padding_idx + NonPaddingUpTo(i) + pure.past_vectors_length
        /\ \A i, j \in DOMAIN pure.input_ids :
              (/\ i < j
               /\ pure.input_ids[i] # pure.padding_idx
               /\ pure.input_ids[j] # pure.padding_idx)
              => pure.position_ids[i] < pure.position_ids[j]

\* a row with a padding token between two others, after two cached positions
C26_Witness ==
    /\ PositionIdsDone
    /\ pure.padding_idx = 1
    /\ pure.past_vectors_length = 2
    /\ pure.input_ids = <<2, 1, 0>>
    /\ pure.position_ids = <<4, 1, 5>>

-----------------------------------------------------------------------------
(* Claims about calls that compute no loss.                                *)

\* matrix_norm_loss_type or matrix_unitary_loss is an unsupported string
UnsupportedLossType ==
    \/ config.matrix_norm_loss_type \notin {"None", "MSE"}
    \/ config.matrix_unitary_loss \notin {"None", "MSE", "CrossEntropy"}

\* C27: a forward call without labels, a call rejected for supplying both or
\* neither of input_ids / inputs_embeds, and a call with labels under an
\* unsupported loss type string compute no loss and leave preheat_counter at
\* its previous value; the last of them ends in the configuration error.
C27_FailingCallsLeaveCounter ==
    [][(/\ ncalls' = ncalls + 1
        /\ \/ ~last'.labels
           \/ last'.status = "ValueError"
           \/ UnsupportedLossType)
       => /\ preheat_counter' = preheat_counter
          /\ ~last'.has_loss
          /\ (last'.labels /\ last'.status # "ValueError") => last'.status = "KeyError"]_vars

\* a call with labels has ended in the configuration error while the preheat
\* counter was positive, and the counter is what it was
C27_Witness ==
    /\ last.status = "KeyError"
    /\ last.labels
    /\ UnsupportedLossType
    /\ last.counter_before > 0
    /\ preheat_counter = last.counter_before
    /\ ncalls >= 2

-----------------------------------------------------------------------------
(* Claims about the width of the head-mixing projection layers.            *)

\* the width of what forward hands to one Linear layer of v_to_hidden: one
\* head's feature vector, or x.flatten(-2) under "common"
FedWidth(l) ==
    IF l.networks_for_heads = "common"
    THEN l.num_matrix_heads * Len(l.x[1])
    ELSE Len(l.x[1])

\* forward has reached the head-mixing branch of a layer that has projections
ProjectionFed ==
    /\ layer.constructed
    /\ layer.status \in {"ok", "RuntimeError"}
    /\ layer.networks_for_heads \in {"separate", "common"}

\* C29: in both variants, under "separate" and "common", the projection
\* layers are built with the input width of the feature vector forward feeds
\* them, matrix_dim * len(use_for_context) * (2 if complex and not abs else 1),
\* times num_matrix_heads for "common", so that the projection applies.
C29_ProjectionWidthMatchesFeatures ==
    ProjectionFed =>
        /\ FedWidth(layer) =
              Dim * Len(layer.use_for_context) * ComplexSzMultiplyer(layer)
                  * (IF layer.networks_for_heads = "common"
                     THEN layer.num_matrix_heads ELSE 1)
        /\ layer.in_features = FedWidth(layer)
        /\ layer.status = "ok"

-----------------------------------------------------------------------------
(* Claims about right-padded sequences.                                    *)

\* the attention mask is 1 on the first L positions and 0 on the others
RightPadded(L) ==
    /\ layer.has_mask
    /\ L \in 1..ContextLen
    /\ \A p \in 1..ContextLen : layer.mask[p] = (IF p <= L THEN 1 ELSE 0)

\* the backward scan over positions L down to i started from the initial
\* vector, no mask read
RECURSIVE BackwardFrom(_, _)
BackwardFrom(L, i) ==
    IF i > L THEN InitVector(layer.vector_init_direction)
    ELSE LET w == MatVec(layer.m_norm_rl[i], BackwardFrom(L, i + 1))
         IN IF layer.norm_vectors THEN Renormalize(w) ELSE w

\* C30: with the mask 1 on the first L positions and 0 on the rest, 'global'
\* and 'lr' at every padded position equal 'lr' at the last unpadded position,
\* 'rl' and 'rl_excl' at every padded position equal the initial vector, and
\* 'rl' at an unpadded position i is the backward scan over positions L down
\* to i started from the initial vector.
C30_RightPaddedViews ==
    layer.status \in {"ok", "TypeError"} =>
        \A L \in 1..ContextLen : RightPadded(L) =>
            /\ "lr" \in layer.available =>
                  \A p \in (L + 1)..ContextLen :
                      /\ layer.views["global"][p] = layer.views["lr"][L]
                      /\ layer.views["lr"][p] = layer.views["lr"][L]
            /\ "rl" \in layer.available =>
                  /\ \A p \in (L + 1)..ContextLen :
                      /\ layer.views["rl"][p] = InitVector(layer.vector_init_direction)
                      /\ layer.views["rl_excl"][p] = InitVector(layer.vector_init_direction)
                  /\ \A i \in 1..L : layer.views["rl"][i] = BackwardFrom(L, i)

\* a forward call over two tokens followed by one padded position built the
\* feature vector from 'lr' and 'rl'; both scans moved at the two tokens
C30_Witness ==
    /\ layer.status = "ok"
    /\ layer.use_for_context = <<"lr", "rl">>
    /\ ContextLen = 3
    /\ RightPadded(2)
    /\ layer.views["lr"][1] # InitVector(layer.vector_init_direction)
    /\ layer.views["lr"][2] # layer.views["lr"][1]
    /\ layer.views["lr"][3] = layer.views["lr"][2]
    /\ layer.views["rl"][3] = InitVector(layer.vector_init_direction)
    /\ layer.views["rl"][2] # layer.views["rl"][3]
    /\ layer.views["rl"][1] # layer.views["rl"][2]
    /\ layer.views["rl_excl"][2] # layer.views["rl_excl"][1]

====
